---------------------------- MODULE Spec2Model ----------------------------
(***************************************************************************)
(* A model of the squirrel generated-ledger store (src-tauri): the text    *)
(* normalizer, the ledger grammar parser, monthly rotation, deduplicated   *)
(* import, manual append, account-declaration append and load.             *)
(*                                                                         *)
(* Representation of text.  A Rust string is modelled by the sequence of   *)
(* its '\n'-separated pieces, each piece a sequence of one-character       *)
(* strings: the text "ab\n\nc\n" is << <<"a","b">>, <<>>, <<"c">>, <<>> >>.*)
(* The encoding is a bijection (every text has at least one piece, the     *)
(* empty text is << <<>> >>), so contents.split('\n') and join("\n") are   *)
(* the identity on it, while str::lines() drops one trailing empty piece.  *)
(***************************************************************************)
EXTENDS Integers, Sequences, FiniteSets, TLC

VARIABLES
  ledger,    \* ledger.transactions: NoFile or its text
  archive,   \* archive/: function from archive names <<yyyymm, i>> to texts
  index,     \* index.json: NoFile or [txn_ids |-> set of identifiers]
  sources,   \* sources.json: NoFile or [paths |-> sequence of paths]
  last,      \* the last store call: operation, arguments, result
  ndecl,     \* number of add_account_declaration calls made so far
  nfail,     \* number of import_source_files calls that returned an error
  ncalls,    \* number of store calls made so far
  nin,       \* normalizer study: the input text
  nout,      \* normalizer study: the outputs of successive normalizations
  ptext,     \* parser study: the input text
  pres,      \* parser study: None, or Some(the ParseResult of the input text)
  prt        \* parser study: None, or Some(a transaction rendered and parsed again)

vars == <<ledger, archive, index, sources, last, ndecl, nfail, ncalls, nin, nout,
          ptext, pres, prt>>

storeVars == <<ledger, archive, index, sources, last, ndecl, nfail, ncalls>>
normVars == <<nin, nout>>
parseVars == <<ptext, pres, prt>>

(***************************************************************************)
(* Characters and strings                                                  *)
(***************************************************************************)
\* char::is_whitespace, over the characters the model uses
WhiteSpace == {" ", "\t", "\r"}

\* u8::is_ascii_digit
AsciiDigit == {"0", "1", "2", "3", "4", "5", "6", "7", "8", "9"}

Last(s) == s[Len(s)]

Front(s) == SubSeq(s, 1, Len(s) - 1)

\* the suffix of s that starts at (1-based) position i
From(s, i) == SubSeq(s, i, Len(s))

\* str::starts_with
StartsWith(s, p) == Len(s) >= Len(p) /\ SubSeq(s, 1, Len(p)) = p

\* the index of the first character at or after i that is not in set C
\* (Len(s) + 1 when there is none)
RECURSIVE SkipIn(_, _, _)
SkipIn(s, i, C) ==
  IF i <= Len(s) /\ s[i] \in C THEN SkipIn(s, i + 1, C) ELSE i

\* the index of the first character at or after i that is in set C
\* (Len(s) + 1 when there is none)
RECURSIVE FindIn(_, _, _)
FindIn(s, i, C) ==
  IF i <= Len(s) /\ s[i] \notin C THEN FindIn(s, i + 1, C) ELSE i

\* the index of the last character at or before i that is not in set C
\* (0 when there is none)
RECURSIVE SkipBackIn(_, _, _)
SkipBackIn(s, i, C) ==
  IF i >= 1 /\ s[i] \in C THEN SkipBackIn(s, i - 1, C) ELSE i

\* str::trim
Trim(s) == SubSeq(s, SkipIn(s, 1, WhiteSpace), SkipBackIn(s, Len(s), WhiteSpace))

\* s.trim().is_empty()
TrimIsEmpty(s) == SkipIn(s, 1, WhiteSpace) > Len(s)

FourSpaces == <<" ", " ", " ", " ">>

\* str::find(char): the index of the first c in s, 0 when there is none
FindChar(s, c) ==
  LET i == FindIn(s, 1, {c}) IN IF i > Len(s) THEN 0 ELSE i

\* str::find(&str): the index where the first occurrence of pat starts, 0 when
\* there is none
RECURSIVE FindStrFrom(_, _, _)
FindStrFrom(s, pat, i) ==
  IF i + Len(pat) - 1 > Len(s) THEN 0
  ELSE IF SubSeq(s, i, i + Len(pat) - 1) = pat THEN i
  ELSE FindStrFrom(s, pat, i + 1)

\* str::split_once(c): None, or Some(<<left, right>>)
split_once(s, c) ==
  LET i == FindChar(s, c)
  IN IF i = 0 THEN <<>> ELSE <<(<<SubSeq(s, 1, i - 1), From(s, i + 1)>>)>>

\* str::split_whitespace, collected
RECURSIVE SplitWhitespaceFrom(_, _)
SplitWhitespaceFrom(s, i) ==
  LET b == SkipIn(s, i, WhiteSpace)
  IN IF b > Len(s) THEN <<>>
     ELSE LET e == FindIn(s, b, WhiteSpace)
          IN <<SubSeq(s, b, e - 1)>> \o SplitWhitespaceFrom(s, e)

split_whitespace(s) == SplitWhitespaceFrom(s, 1)

\* [String]::join(sep)
RECURSIVE Join(_, _)
Join(parts, sep) ==
  IF Len(parts) = 0 THEN <<>>
  ELSE IF Len(parts) = 1 THEN parts[1]
  ELSE parts[1] \o sep \o Join(Tail(parts), sep)

\* every character of s is in set C
AllIn(s, C) == \A i \in 1..Len(s) : s[i] \in C

\* the printable ASCII characters (but the grave accent) in byte order
\* (String's Ord)
AsciiOrder ==
  <<" ", "!", "\"", "#", "$", "%", "&", "'", "(", ")", "*", "+", ",", "-", ".", "/",
    "0", "1", "2", "3", "4", "5", "6", "7", "8", "9", ":", ";", "<", "=", ">", "?",
    "@", "A", "B", "C", "D", "E", "F", "G", "H", "I", "J", "K", "L", "M", "N", "O",
    "P", "Q", "R", "S", "T", "U", "V", "W", "X", "Y", "Z", "[", "\\", "]", "^", "_",
    "a", "b", "c", "d", "e", "f", "g", "h", "i", "j", "k", "l", "m", "n", "o",
    "p", "q", "r", "s", "t", "u", "v", "w", "x", "y", "z", "{", "|", "}", "~">>

CharOrd(c) == CHOOSE i \in 1..Len(AsciiOrder) : AsciiOrder[i] = c

\* a <= b for strings
RECURSIVE StrLeq(_, _)
StrLeq(a, b) ==
  IF Len(a) = 0 THEN TRUE
  ELSE IF Len(b) = 0 THEN FALSE
  ELSE IF a[1] = b[1] THEN StrLeq(Tail(a), Tail(b))
  ELSE CharOrd(a[1]) < CharOrd(b[1])

\* the strings of a set in ascending order (the iteration order of a BTreeMap
\* with these keys)
RECURSIVE Ascending(_)
Ascending(S) ==
  IF S = {} THEN <<>>
  ELSE LET m == CHOOSE x \in S : \A y \in S : StrLeq(x, y)
       IN <<m>> \o Ascending(S \ {m})

\* A character outside ASCII is written by its code point, "U+E9" for
\* U+00E9.  Utf8(c) is the UTF-8 encoding of the character c, each byte given
\* as the character with the byte's value (`b as char`).
Utf8(c) ==
  CASE c = "U+E9" -> <<"U+C3", "U+A9">>
    [] c = "U+C3" -> <<"U+C3", "U+83">>
    [] c = "U+A9" -> <<"U+C2", "U+A9">>
    [] c = "U+C2" -> <<"U+C3", "U+82">>
    [] c = "U+83" -> <<"U+C2", "U+83">>
    [] c = "U+82" -> <<"U+C2", "U+82">>
    [] OTHER -> <<c>>

\* Option<T>: None is the empty sequence, Some(x) the one-element sequence
None == <<>>

Some(x) == <<x>>

IsSome(o) == Len(o) = 1

\* Option::unwrap_or
UnwrapOr(o, d) == IF IsSome(o) THEN o[1] ELSE d

\* str::lines(): the pieces without one trailing empty piece; a piece that a
\* '\n' follows loses one trailing '\r'
lines(contents) ==
  LET p == IF Last(contents) = <<>> THEN Front(contents) ELSE contents
  IN [i \in 1..Len(p) |->
        IF i < Len(contents) /\ Len(p[i]) > 0 /\ Last(p[i]) = "\r"
        THEN Front(p[i]) ELSE p[i]]

\* a plausible slip: the empty-contents test left out
NeverEmpty(contents) == FALSE

\* contents.trim().is_empty() for a whole text
TextTrimIsEmpty(contents) == \A i \in 1..Len(contents) : TrimIsEmpty(contents[i])

(***************************************************************************)
(* Ledger grammar parser (ledger_parser.rs)                                *)
(***************************************************************************)
AsciiUpper ==
  {"A","B","C","D","E","F","G","H","I","J","K","L","M",
   "N","O","P","Q","R","S","T","U","V","W","X","Y","Z"}

AsciiLower ==
  {"a","b","c","d","e","f","g","h","i","j","k","l","m",
   "n","o","p","q","r","s","t","u","v","w","x","y","z"}

\* [A-Za-z0-9_.-]
AccountChar == AsciiUpper \cup AsciiLower \cup AsciiDigit \cup {"_", ".", "-"}

diag(line, column, message) ==
  [line |-> line, column |-> column, message |-> message]

\* a message is a pair: its fixed text and the text formatted into it
Msg(text, arg) == <<text, arg>>

is_blank(line) == TrimIsEmpty(line)

\* a plausible slip: no line taken to be a directive
NoDirective(line) == FALSE

is_directive(line) ==
  LET i == SkipIn(line, 1, {" ", "\t"})
  IN i <= Len(line) /\ line[i] = ";"

\* the end of the longest prefix of s, after position i, made of digits only
DigitsEnd(s, i) == SkipIn(s, i + 1, AsciiDigit) - 1

\* s has exactly two digits after position i
TwoDigits(s, i) ==
  Len(s) >= i + 2 /\ s[i + 1] \in AsciiDigit /\ s[i + 2] \in AsciiDigit

\* T\d{2}:\d{2}:\d{2} after position i: the position of its last character,
\* 0 when it does not match
ClockEnd(s, i) ==
  IF /\ Len(s) >= i + 9
     /\ s[i + 1] = "T" /\ TwoDigits(s, i + 1)
     /\ s[i + 4] = ":" /\ TwoDigits(s, i + 4)
     /\ s[i + 7] = ":" /\ TwoDigits(s, i + 7)
  THEN i + 9 ELSE 0

\* (?:\.\d{1,6})? after position i: the positions at which it can end, the
\* longest first in the regex's preference (i itself when it is skipped)
FractionEnds(s, i) ==
  IF Len(s) >= i + 2 /\ s[i + 1] = "." /\ s[i + 2] \in AsciiDigit
  THEN LET e == DigitsEnd(s, i + 1)
           top == IF e > i + 7 THEN i + 7 ELSE e
       IN (i + 2 .. top) \cup {i}
  ELSE {i}

\* (?:Z|[+-]\d{2}:\d{2})? after position i: the positions at which it can end
ZoneEnds(s, i) ==
  IF Len(s) >= i + 1 /\ s[i + 1] = "Z" THEN {i + 1, i}
  ELSE IF /\ Len(s) >= i + 6 /\ s[i + 1] \in {"+", "-"}
          /\ TwoDigits(s, i + 1) /\ s[i + 4] = ":" /\ TwoDigits(s, i + 4)
  THEN {i + 6, i}
  ELSE {i}

\* \d{4}-\d{2}-\d{2} at the start of the line
looks_like_header_date(line) ==
  /\ Len(line) >= 10
  /\ AllIn(SubSeq(line, 1, 4), AsciiDigit) /\ line[5] = "-"
  /\ AllIn(SubSeq(line, 6, 7), AsciiDigit) /\ line[8] = "-"
  /\ AllIn(SubSeq(line, 9, 10), AsciiDigit)

\* header_datetime_re: None, or Some(<<end of date+time, end of the match>>),
\* the match taking in the run of whitespace that follows date and time
header_datetime_re(line) ==
  IF ~looks_like_header_date(line) THEN None
  ELSE LET c == ClockEnd(line, 10)
           ends == {10} \cup
                   (IF c = 0 THEN {}
                    ELSE UNION {ZoneEnds(line, f) : f \in FractionEnds(line, c)})
           ok == {e \in ends : e < Len(line) /\ line[e + 1] \in WhiteSpace}
       IN IF ok = {} THEN None
          ELSE LET e == CHOOSE x \in ok : \A y \in ok : y <= x
               IN Some(<<e, SkipIn(line, e + 1, WhiteSpace) - 1>>)

\* account_re: two or more ':'-separated segments, each one or more AccountChar
account_re(s) ==
  /\ Len(s) > 0
  /\ AllIn(s, AccountChar \cup {":"})
  /\ s[1] # ":" /\ Last(s) # ":"
  /\ \E i \in 1..Len(s) : s[i] = ":"
  /\ \A i \in 1..(Len(s) - 1) : ~(s[i] = ":" /\ s[i + 1] = ":")

\* amount_re: [+-]?\d+(?:\.\d+)?
amount_re(s) ==
  LET b == IF Len(s) > 0 /\ s[1] \in {"+", "-"} THEN 1 ELSE 0
      e == DigitsEnd(s, b)
  IN /\ e > b
     /\ \/ e = Len(s)
        \/ /\ e < Len(s) /\ s[e + 1] = "."
           /\ DigitsEnd(s, e + 1) > e + 1
           /\ DigitsEnd(s, e + 1) = Len(s)

\* commodity_re: [A-Za-z_][A-Za-z0-9_]*
commodity_re(s) ==
  /\ Len(s) > 0
  /\ s[1] \in AsciiUpper \cup AsciiLower \cup {"_"}
  /\ AllIn(s, AsciiUpper \cup AsciiLower \cup AsciiDigit \cup {"_"})

\* the quoted branch of take_token: t starts with '"', i is the position of
\* the character looked at, out the token built so far.  The code walks the
\* bytes of t and pushes each byte as a character: the bytes of a character
\* outside ASCII are neither '\\' nor '"', so that walking the characters
\* and pushing the bytes of each gives the same token.
RECURSIVE QuotedToken(_, _, _)
QuotedToken(t, i, out) ==
  IF i > Len(t) THEN <<From(t, 2), <<>>>>
  ELSE IF t[i] = "\\" /\ i + 1 <= Len(t)
       THEN QuotedToken(t, i + 2, out \o Utf8(t[i + 1]))
  ELSE IF t[i] = "\"" THEN <<out, From(t, i + 1)>>
  ELSE QuotedToken(t, i + 1, out \o Utf8(t[i]))

\* None, or Some(<<token, rest>>)
take_token(input) ==
  LET trimmed == From(input, SkipIn(input, 1, {" ", "\t"}))
  IN IF Len(trimmed) = 0 THEN None
     ELSE IF trimmed[1] = "\"" THEN Some(QuotedToken(trimmed, 2, <<>>))
     ELSE LET end == FindIn(trimmed, 1, {" ", "\t"})
          IN Some(<<SubSeq(trimmed, 1, end - 1), From(trimmed, end)>>)

\* the `while let Some((tok, next)) = take_token(rest)` loop
RECURSIVE TakeTokens(_)
RECURSIVE PushToken(_)
TakeTokens(rest) == PushToken(take_token(rest))

\* the body of that loop, t being what take_token returned
PushToken(t) == IF IsSome(t) THEN <<t[1][1]>> \o TakeTokens(t[1][2]) ELSE <<>>

\* the fields of a header whose tokens are given, idx being 1 when the first
\* token is the status and 0 otherwise: <<status, payee, narration>>
HeaderFields(tokens, idx) ==
  <<IF idx = 1 THEN Some(tokens[1][1]) ELSE None,
    IF Len(tokens) >= idx + 1 THEN Some(tokens[idx + 1]) ELSE None,
    IF Len(tokens) < idx + 2 THEN None
    ELSE Some(Join(SubSeq(tokens, idx + 2, Len(tokens)), <<" ">>))>>

\* the status test of parse_header_fields
StatusIdx(tokens) ==
  IF Len(tokens) >= 1 /\ tokens[1] \in {<<"*">>, <<"!">>} THEN 1 ELSE 0

\* <<status, payee, narration>>
parse_header_fields(header_after_datetime) ==
  HeaderFields(TakeTokens(header_after_datetime),
               StatusIdx(TakeTokens(header_after_datetime)))

\* amounts (f64 in the code) are held in units of 10^-AmountDigits
AmountDigits == 2

RECURSIVE Pow10(_)
Pow10(n) == IF n = 0 THEN 1 ELSE 10 * Pow10(n - 1)

Digits10 == <<"0", "1", "2", "3", "4", "5", "6", "7", "8", "9">>

DigitVal(c) == (CHOOSE i \in 1..10 : Digits10[i] = c) - 1

\* the number a string of digits writes
RECURSIVE NatOf(_)
NatOf(ds) == IF Len(ds) = 0 THEN 0 ELSE 10 * NatOf(Front(ds)) + DigitVal(Last(ds))

\* str::parse::<f64>().unwrap_or(0.0), on the decimal forms amount_re accepts
\* (fraction digits beyond AmountDigits are dropped); 0 on anything else
parse_f64(text) ==
  IF ~amount_re(text) THEN 0
  ELSE LET b == IF text[1] \in {"+", "-"} THEN 1 ELSE 0
           e == DigitsEnd(text, b)
           whole == NatOf(SubSeq(text, b + 1, e))
           fr == IF e = Len(text) THEN <<>> ELSE From(text, e + 2)
           frd == IF Len(fr) > AmountDigits THEN SubSeq(fr, 1, AmountDigits) ELSE fr
           mag == whole * Pow10(AmountDigits)
                    + NatOf(frd) * Pow10(AmountDigits - Len(frd))
       IN IF text[1] = "-" THEN 0 - mag ELSE mag

\* the parser's local state
ParserInit ==
  [diagnostics |-> <<>>, current |-> None, current_account |-> None,
   transactions |-> <<>>, account_declarations |-> <<>>]

PushDiag(ps, d) == [ps EXCEPT !.diagnostics = Append(@, d)]

\* a plausible slip: the transaction without postings reported and dropped
FlushDroppingEmpty(ps) ==
  IF IsSome(ps.current)
  THEN IF Len(ps.current[1][2].postings) = 0
       THEN [ps EXCEPT
               !.diagnostics =
                 Append(@, diag(ps.current[1][1], 0,
                                Msg("transaction missing postings", <<>>))),
               !.current = None]
       ELSE [ps EXCEPT !.transactions = Append(@, ps.current[1][2]),
                       !.current = None]
  ELSE ps

flush_transaction(ps) ==
  IF IsSome(ps.current)
  THEN LET header_line == ps.current[1][1]
           txn == ps.current[1][2]
       IN [ps EXCEPT
             !.diagnostics =
               IF Len(txn.postings) = 0
               THEN Append(@, diag(header_line, 0,
                                   Msg("transaction missing postings", <<>>)))
               ELSE @,
             !.transactions = Append(@, txn),
             !.current = None]
  ELSE ps

\* if let Some((_, decl)) = current_account.take() { account_declarations.push(decl) }
FlushAccount(ps) ==
  IF IsSome(ps.current_account)
  THEN [ps EXCEPT !.account_declarations = Append(@, ps.current_account[1][2]),
                  !.current_account = None]
  ELSE ps

Account7 == <<"a", "c", "c", "o", "u", "n", "t">>

Opening7 == <<"o", "p", "e", "n", "i", "n", "g">>

\* the branch of parse_transactions for an `account` line
AccountLine(ps0, line_no, line) ==
  LET ps == FlushAccount(flush_transaction(ps0))
      so == split_once(line, ";")
      before_meta == IF IsSome(so) THEN so[1][1] ELSE line
      parts == split_whitespace(before_meta)
      kw == IF Len(parts) >= 1 THEN parts[1] ELSE <<>>
  IN IF kw # Account7
     THEN PushDiag(ps, diag(line_no, 0,
            Msg("invalid line: expected transaction header, posting, or directive", <<>>)))
     ELSE IF Len(parts) < 2
     THEN PushDiag(ps, diag(line_no, 0,
            Msg("account declaration missing account path", <<>>)))
     ELSE LET account == parts[2]
              default_commodity == IF Len(parts) >= 3 THEN Some(parts[3]) ELSE None
              d1 == IF ~account_re(account)
                    THEN <<diag(line_no, 0, Msg("invalid account path: ", account))>>
                    ELSE <<>>
              d2 == IF IsSome(default_commodity) /\ ~commodity_re(default_commodity[1])
                    THEN <<diag(line_no, 0,
                                Msg("invalid commodity: ", default_commodity[1]))>>
                    ELSE <<>>
              d3 == IF Len(parts) >= 4
                    THEN <<diag(line_no, 0,
                             Msg("unexpected extra tokens in account declaration (expected: account <path> [COMMODITY])", <<>>))>>
                    ELSE <<>>
          IN [ps EXCEPT
                !.diagnostics = @ \o d1 \o d2 \o d3,
                !.current_account =
                  Some(<<line_no, [account |-> account,
                                   default_commodity |-> default_commodity,
                                   opening |-> None]>>)]

\* a plausible slip: the declaration's default commodity not consulted
ExplicitCommodity(parts, decl) == IF Len(parts) >= 3 THEN Some(parts[3]) ELSE None

\* the commodity of an opening line: its third token, or the default
\* commodity of the declaration
OpeningCommodity(parts, decl) ==
  IF Len(parts) >= 3 THEN Some(parts[3]) ELSE decl.default_commodity

\* a plausible slip: the later opening replaces the one the declaration has
ReplaceOpening(ps, line_no, commodity, amount_text) ==
  [ps EXCEPT
     !.current_account =
       Some(<<ps.current_account[1][1],
              [ps.current_account[1][2] EXCEPT !.opening =
                 Some([commodity |-> commodity,
                       amount |-> parse_f64(amount_text)])]>>)]

\* the end of the opening branch: a declaration that has an opening keeps it
\* and the line gets a diagnostic; otherwise the declaration takes the
\* opening
SetOpening(ps, line_no, commodity, amount_text) ==
  IF IsSome(ps.current_account[1][2].opening)
  THEN PushDiag(ps, diag(line_no, 4, Msg("duplicate opening declaration", <<>>)))
  ELSE [ps EXCEPT
          !.current_account =
            Some(<<ps.current_account[1][1],
                   [ps.current_account[1][2] EXCEPT !.opening =
                      Some([commodity |-> commodity,
                            amount |-> parse_f64(amount_text)])]>>)]

\* the branch for an indented line while an account declaration is open and
\* no transaction is
DeclarationLine(ps, line_no, line) ==
  LET decl == ps.current_account[1][2]
      after_indent == From(line, 5)
      so == split_once(after_indent, ";")
      before_meta == IF IsSome(so) THEN so[1][1] ELSE after_indent
      parts == split_whitespace(before_meta)
  IN IF Len(parts) = 0
     THEN PushDiag(ps, diag(line_no, 4, Msg("invalid account declaration line", <<>>)))
     ELSE IF parts[1] # Opening7
     THEN PushDiag(ps, diag(line_no, 4,
                            Msg("unknown account declaration entry: ", parts[1])))
     ELSE IF Len(parts) < 2
     THEN PushDiag(ps, diag(line_no, 4, Msg("opening missing amount", <<>>)))
     ELSE LET amount_text == parts[2]
              d1 == IF ~amount_re(amount_text)
                    THEN <<diag(line_no, 4, Msg("invalid amount: ", amount_text))>>
                    ELSE <<>>
              commodity == OpeningCommodity(parts, decl)
              ps1 == [ps EXCEPT !.diagnostics = @ \o d1]
          IN IF ~IsSome(commodity)
             THEN PushDiag(ps1, diag(line_no, 4,
                    Msg("opening missing commodity and account has no default commodity", <<>>)))
             ELSE LET d2 == IF ~commodity_re(commodity[1])
                            THEN <<diag(line_no, 4,
                                        Msg("invalid commodity: ", commodity[1]))>>
                            ELSE <<>>
                      d3 == IF Len(parts) >= 4
                            THEN <<diag(line_no, 4,
                                     Msg("unexpected extra tokens in opening declaration (expected: opening <amount> [COMMODITY])", <<>>))>>
                            ELSE <<>>
                      ps2 == [ps1 EXCEPT !.diagnostics = @ \o d2 \o d3]
                  IN SetOpening(ps2, line_no, commodity[1], amount_text)

\* a plausible slip: the `continue` after "missing amount" left out
MissingAmountNoContinue(ps, d1, line_no, col2) ==
  [ps EXCEPT !.diagnostics =
     @ \o d1 \o <<diag(line_no, col2, Msg("missing amount", <<>>)),
                  diag(line_no, col2 + 1, Msg("missing commodity", <<>>))>>]

\* `if amount.is_none() { diagnostics.push(..); continue; }`, d1 being the
\* diagnostics of the account token
MissingAmount(ps, d1, line_no, col2) ==
  [ps EXCEPT !.diagnostics =
     @ \o d1 \o <<diag(line_no, col2, Msg("missing amount", <<>>))>>]

\* the branch for an indented line while a transaction is open
PostingLine(ps, line_no, line) ==
  LET after_indent == From(line, 5)
      parts == split_whitespace(after_indent)
  IN IF Len(parts) = 0
     THEN PushDiag(ps, diag(line_no, 4, Msg("missing account", <<>>)))
     ELSE LET account == parts[1]
              d1 == IF ~account_re(account)
                    THEN <<diag(line_no, 4, Msg("invalid account path: ", account))>>
                    ELSE <<>>
              col2 == 4 + Len(account) + 1
          IN IF Len(parts) < 2
             THEN MissingAmount(ps, d1, line_no, col2)
             ELSE LET amount == parts[2]
                      d2 == IF ~amount_re(amount)
                            THEN <<diag(line_no, col2, Msg("invalid amount: ", amount))>>
                            ELSE <<>>
                      col3 == col2 + Len(amount) + 1
                  IN IF Len(parts) < 3
                     THEN [ps EXCEPT !.diagnostics =
                             @ \o d1 \o d2
                               \o <<diag(line_no, col3, Msg("missing commodity", <<>>))>>]
                     ELSE LET commodity == parts[3]
                              d3 == IF ~commodity_re(commodity)
                                    THEN <<diag(line_no, col3,
                                                Msg("invalid commodity: ", commodity))>>
                                    ELSE <<>>
                              remainder_parts == SubSeq(parts, 4, Len(parts))
                              remainder == IF Len(remainder_parts) = 0 THEN None
                                           ELSE Some(Join(remainder_parts, <<" ">>))
                              posting == [account |-> account,
                                          amount |-> parse_f64(amount),
                                          amount_text |-> amount,
                                          commodity |-> commodity,
                                          remainder |-> remainder]
                              cur == ps.current[1]
                          IN [ps EXCEPT
                                !.diagnostics = @ \o d1 \o d2 \o d3,
                                !.current =
                                  Some(<<cur[1],
                                         [cur[2] EXCEPT !.postings = Append(@, posting)]>>)]

\* the branch for a line that starts with four spaces
IndentedLine(ps, line_no, line) ==
  IF ~IsSome(ps.current)
  THEN IF ~IsSome(ps.current_account)
       THEN PushDiag(ps, diag(line_no, 0, Msg("unexpected indented line", <<>>)))
       ELSE DeclarationLine(ps, line_no, line)
  ELSE IF IsSome(ps.current_account)
  THEN PushDiag(ps, diag(line_no, 0,
                         Msg("posting is not allowed inside an account declaration", <<>>)))
  ELSE PostingLine(ps, line_no, line)

\* the Transaction a header starts, f being <<status, payee, narration>>
NewTransaction(date, datetime, f, meta) ==
  [date |-> date, datetime |-> datetime, status |-> f[1], payee |-> f[2],
   narration |-> f[3], meta |-> meta, postings |-> <<>>]

\* a plausible slip: the header replaces the open transaction without
\* closing it
ReplaceOpen(ps) == ps

\* what a header does first to the parser's state: it closes the transaction
\* and the account declaration that are open
CloseBeforeHeader(ps) == FlushAccount(flush_transaction(ps))

\* the last branch: a transaction header, or an unrecognized line
HeaderLine(ps0, line_no, line) ==
  LET caps == header_datetime_re(line)
  IN IF ~IsSome(caps)
     THEN PushDiag(ps0, diag(line_no, 0,
            Msg("invalid line: expected transaction header, posting, or directive", <<>>)))
     ELSE LET ps == CloseBeforeHeader(ps0)
              date == SubSeq(line, 1, 10)
              datetime == SubSeq(line, 1, caps[1][1])
              datetime_end == caps[1][2]
              so == split_once(line, ";")
              before_meta == IF IsSome(so) THEN so[1][1] ELSE line
              meta == IF IsSome(so) THEN Some(Trim(so[1][2])) ELSE None
              header_after_datetime ==
                IF datetime_end <= Len(before_meta)
                THEN From(before_meta, datetime_end + 1) ELSE <<>>
              d1 == IF TrimIsEmpty(header_after_datetime)
                    THEN <<diag(line_no, datetime_end,
                                Msg("missing transaction details", <<>>))>>
                    ELSE <<>>
              d2 == IF ~IsSome(so)
                    THEN <<diag(line_no, 0,
                                Msg("missing meta comment (expected ';')", <<>>))>>
                    ELSE <<>>
          IN [ps EXCEPT
                !.diagnostics = @ \o d1 \o d2,
                !.current =
                  Some(<<line_no,
                         NewTransaction(date, datetime,
                                        parse_header_fields(header_after_datetime),
                                        meta)>>)]

\* one iteration of the loop of parse_transactions
ParseLine(ps, line_no, raw_line) ==
  LET line == SubSeq(raw_line, 1, SkipBackIn(raw_line, Len(raw_line), {"\r"}))
  IN IF is_blank(line) THEN FlushAccount(flush_transaction(ps))
     ELSE IF is_directive(line) THEN ps
     ELSE IF \/ line = Account7
             \/ StartsWith(line, Account7 \o <<" ">>)
             \/ StartsWith(line, Account7 \o <<"\t">>)
          THEN AccountLine(ps, line_no, line)
     ELSE IF StartsWith(line, FourSpaces) THEN IndentedLine(ps, line_no, line)
     ELSE HeaderLine(ps, line_no, line)

RECURSIVE ParseLines(_, _, _)
ParseLines(ps, ls, i) ==
  IF i > Len(ls) THEN ps ELSE ParseLines(ParseLine(ps, i, ls[i]), ls, i + 1)

\* *entry(account).or_default().entry(commodity).or_insert(0.0) += amount, on
\* balances_by_account: a function from accounts to functions from
\* commodities to amounts
AddAmount(by_account, account, commodity, amount) ==
  LET by_commodity == IF account \in DOMAIN by_account THEN by_account[account]
                      ELSE <<>>
      total == IF commodity \in DOMAIN by_commodity
               THEN by_commodity[commodity] + amount ELSE amount
  IN (account :> ((commodity :> total) @@ by_commodity)) @@ by_account

\* the loop over the postings of one transaction
RECURSIVE AddPostings(_, _, _)
AddPostings(by_account, postings, i) ==
  IF i > Len(postings) THEN by_account
  ELSE AddPostings(AddAmount(by_account, postings[i].account,
                             postings[i].commodity, postings[i].amount),
                   postings, i + 1)

\* the loop over the transactions
RECURSIVE AddTransactions(_, _, _)
AddTransactions(by_account, transactions, j) ==
  IF j > Len(transactions) THEN by_account
  ELSE AddTransactions(AddPostings(by_account, transactions[j].postings, 1),
                       transactions, j + 1)

\* a plausible slip: the account declarations left out of the balances
SkipDeclaration(by_account, decl) == by_account

\* one iteration of the loop over the account declarations
AddDeclaration(by_account, decl) ==
  IF IsSome(decl.opening)
  THEN AddAmount(by_account, decl.account, decl.opening[1].commodity,
                 decl.opening[1].amount)
  ELSE IF decl.account \in DOMAIN by_account THEN by_account
  ELSE (decl.account :> <<>>) @@ by_account

RECURSIVE AddDeclarations(_, _, _)
AddDeclarations(by_account, decls, k) ==
  IF k > Len(decls) THEN by_account
  ELSE AddDeclarations(AddDeclaration(by_account, decls[k]), decls, k + 1)

\* by_commodity.into_iter().map(..).collect()
Totals(by_commodity, commodities) ==
  [i \in 1..Len(commodities) |->
     [commodity |-> commodities[i], amount |-> by_commodity[commodities[i]]]]

\* balances_by_account.into_iter().map(..).collect()
BalancesVec(by_account, accounts) ==
  [i \in 1..Len(accounts) |->
     [account |-> accounts[i],
      totals |-> Totals(by_account[accounts[i]],
                        Ascending(DOMAIN by_account[accounts[i]]))]]

\* the balances vector of balances_by_account
BalancesOf(by_account) == BalancesVec(by_account, Ascending(DOMAIN by_account))

\* the balances of the transactions and account declarations parsed
Balances(transactions, decls) ==
  BalancesOf(AddDeclarations(AddTransactions(<<>>, transactions, 1), decls, 1))

\* a plausible slip: ok set without looking at the diagnostics
AlwaysOk(ps) ==
  [ok |-> TRUE,
   diagnostics |-> ps.diagnostics,
   transactions |-> ps.transactions,
   balances |-> Balances(ps.transactions, ps.account_declarations)]

\* the ParseResult built from the parser's final state
ParseResult(ps) ==
  [ok |-> Len(ps.diagnostics) = 0,
   diagnostics |-> ps.diagnostics,
   transactions |-> ps.transactions,
   balances |-> Balances(ps.transactions, ps.account_declarations)]

\* a plausible slip: the flush after the last line left out
ParseWithoutLastFlush(contents) ==
  ParseResult(ParseLines(ParserInit, lines(contents), 1))

parse_transactions(contents) ==
  ParseResult(FlushAccount(flush_transaction(
                ParseLines(ParserInit, lines(contents), 1))))

(***************************************************************************)
(* Text normalizer (generated_store.rs)                                    *)
(***************************************************************************)
looks_like_header(line) ==
  /\ Len(line) >= 10
  /\ line[1] \in AsciiDigit
  /\ line[2] \in AsciiDigit
  /\ line[3] \in AsciiDigit
  /\ line[4] \in AsciiDigit
  /\ line[5] = "-"
  /\ line[6] \in AsciiDigit
  /\ line[7] \in AsciiDigit
  /\ line[8] = "-"
  /\ line[9] \in AsciiDigit
  /\ line[10] \in AsciiDigit

\* the for loop of normalize_blank_lines: out is the vector built so far,
\* prev is prev_nonblank_was_posting
RECURSIVE NormalizeLoop(_, _, _, _)
NormalizeLoop(pieces, i, out, prev) ==
  IF i > Len(pieces) THEN out
  ELSE LET raw_line == pieces[i]
           isBlank == TrimIsEmpty(raw_line)
           isPosting == StartsWith(raw_line, FourSpaces)
           isHeader == looks_like_header(raw_line)
           out1 == IF /\ isHeader /\ prev
                      /\ Len(out) > 0 /\ ~TrimIsEmpty(Last(out))
                   THEN Append(out, <<>>)
                   ELSE out
       IN NormalizeLoop(pieces, i + 1, Append(out1, raw_line),
                        IF isBlank THEN FALSE ELSE isPosting)

\* a plausible slip: `if` where the code has `while`
PopTrailingOnce(out) ==
  IF Len(out) > 1 /\ Last(out) = <<>> THEN Front(out) ELSE out

\* the while loop of normalize_blank_lines that pops trailing empty lines
RECURSIVE PopTrailingEmpty(_)
PopTrailingEmpty(out) ==
  IF Len(out) > 1 /\ Last(out) = <<>> THEN PopTrailingEmpty(Front(out)) ELSE out

normalize_blank_lines(contents) ==
  PopTrailingEmpty(NormalizeLoop(contents, 1, <<>>, FALSE))

(***************************************************************************)
(* Files.  A text file is NoFile or TextFile(text); a JSON side file is    *)
(* NoFile or JsonFile(value).  The store's directory is the record         *)
(* [ledger, archive, index, sources]; archive maps the names of the files  *)
(* in archive/ to their texts, the name <<ym, 1>> standing for             *)
(* ledger-<ym>.transactions and <<ym, i>>, i > 1, for                      *)
(* ledger-<ym>-<i>.transactions.                                           *)
(***************************************************************************)
NoFile == [exists |-> FALSE]

TextFile(text) == [exists |-> TRUE, text |-> text]

JsonFile(value) == [exists |-> TRUE, valid |-> TRUE, value |-> value]

EmptyText == << <<>> >>

\* a ++ b on texts
TextCat(a, b) == Front(a) \o <<Last(a) \o b[1]>> \o Tail(b)

\* text.ends_with('\n')
EndsWithNewline(t) == Len(t) >= 2 /\ Last(t) = <<>>

\* text.ends_with("\n\n")
EndsWithTwoNewlines(t) == Len(t) >= 3 /\ Last(t) = <<>> /\ t[Len(t) - 1] = <<>>

\* generated_ledger_path / ledger_path
generated_ledger_path == [dir |-> "base"]

\* generated_archive_path / archive_path
generated_archive_path(yyyymm) == [dir |-> "archive", name |-> <<yyyymm, 1>>]

\* Path::exists
PathExists(fs, path) ==
  IF path.dir = "base" THEN fs.ledger.exists ELSE path.name \in DOMAIN fs.archive

\* fs::read_to_string of a file that exists
ReadToString(fs, path) ==
  IF path.dir = "base" THEN fs.ledger.text ELSE fs.archive[path.name]

\* fs::write
FsWrite(fs, path, text) ==
  IF path.dir = "base" THEN [fs EXCEPT !.ledger = TextFile(text)]
  ELSE [fs EXCEPT !.archive = (path.name :> text) @@ @]

\* a plausible slip: the side file is never read back
ReadJsonDefault(file, default) == default

\* read_json: the default for a missing file or one that does not decode
read_json(file, default) ==
  IF ~file.exists THEN default
  ELSE IF file.valid THEN file.value ELSE default

\* write_json
write_json(value) == JsonFile(value)

(***************************************************************************)
(* Rotation (generated_ledger.rs)                                          *)
(***************************************************************************)
Unknown == <<"u", "n", "k", "n", "o", "w", "n">>

\* the loop of parse_yyyymm_from_contents over the lines from the i-th on
RECURSIVE YyyymmFromLines(_, _)
YyyymmFromLines(ls, i) ==
  IF i > Len(ls) THEN None
  ELSE LET line == Trim(ls[i])
       IN IF Len(line) = 0 \/ line[1] = ";" THEN YyyymmFromLines(ls, i + 1)
          ELSE IF /\ Len(line) >= 7
                  /\ AllIn(SubSeq(line, 1, 4), AsciiDigit)
                  /\ line[5] = "-"
                  /\ AllIn(SubSeq(line, 6, 7), AsciiDigit)
               THEN Some(SubSeq(line, 1, 4) \o SubSeq(line, 6, 7))
               ELSE None

parse_yyyymm_from_contents(contents) == YyyymmFromLines(lines(contents), 1)

\* the loop of unique_archive_path: the first i, from i on, with no file
\* ledger-<ym>-<i>.transactions
RECURSIVE UniqueSuffix(_, _, _)
UniqueSuffix(arch, ym, i) ==
  IF <<ym, i>> \notin DOMAIN arch THEN i ELSE UniqueSuffix(arch, ym, i + 1)

\* a plausible slip: the desired name taken whether or not it is in use
DesiredPath(arch, ym) == <<ym, 1>>

\* the name of the archive file chosen for the desired ledger-<ym>.transactions
unique_archive_path(arch, ym) ==
  IF <<ym, 1>> \notin DOMAIN arch THEN <<ym, 1>>
  ELSE <<ym, UniqueSuffix(arch, ym, 2)>>

\* a plausible slip: the rename without the write that follows it
RenameOnly(fs, name) ==
  [fs EXCEPT !.archive = (name :> fs.ledger.text) @@ @, !.ledger = NoFile]

\* rename(ledger, archive) followed by write(ledger, ""), as one step of
\* rotate_ledger_if_needed
RenameAndReset(fs, name) ==
  [fs EXCEPT !.archive = (name :> fs.ledger.text) @@ @,
             !.ledger = TextFile(EmptyText)]

rotate_ledger_if_needed(fs, now_yyyymm) ==
  IF ~fs.ledger.exists THEN fs
  ELSE LET contents == fs.ledger.text
       IN IF TextTrimIsEmpty(contents) THEN fs
          ELSE LET ledger_yyyymm ==
                     UnwrapOr(parse_yyyymm_from_contents(contents), Unknown)
               IN IF ledger_yyyymm = now_yyyymm THEN fs
                  ELSE RenameAndReset(fs, unique_archive_path(fs.archive, ledger_yyyymm))

(***************************************************************************)
(* Generated store (generated_store.rs)                                    *)
(***************************************************************************)
\* quote: the two replace calls, then the surrounding quotes
RECURSIVE Escape(_)
Escape(s) ==
  IF Len(s) = 0 THEN <<>>
  ELSE (IF s[1] \in {"\\", "\""} THEN <<"\\", s[1]>> ELSE <<s[1]>>) \o Escape(Tail(s))

quote(s) == <<"\"">> \o Escape(s) \o <<"\"">>

TxnColon == <<"t", "x", "n", ":">>

extract_txn_id(meta) ==
  LET pos == FindStrFrom(meta, TxnColon, 1)
  IN IF pos = 0 THEN None
     ELSE LET after == From(meta, pos + 4)
              end == FindIn(after, 1, WhiteSpace \cup {","})
              id == Trim(SubSeq(after, 1, end - 1))
          IN IF Len(id) = 0 THEN None ELSE Some(id)

HexDigits ==
  <<"0", "1", "2", "3", "4", "5", "6", "7", "8", "9", "a", "b", "c", "d", "e", "f">>

\* format!("{n:x}")
RECURSIVE Hex(_)
Hex(n) == IF n < 16 THEN <<HexDigits[n + 1]>>
          ELSE Hex(n \div 16) \o <<HexDigits[(n % 16) + 1]>>

\* the process identifier of the one process of the model
Pid == 1

\* generate_txn_id, given the reading of the system clock it takes
generate_txn_id(nanos) ==
  <<"g", "e", "n", "-">> \o Hex(Pid) \o <<"-">> \o Hex(nanos)

\* meta carries an identifier, so that ensure_txn_id does not generate one
HasTxnId(meta) == IsSome(meta) /\ IsSome(extract_txn_id(meta[1]))

\* ensure_txn_id, nanos being the clock reading of the generate_txn_id call it
\* makes when meta carries no identifier: <<id, updated meta>>
ensure_txn_id(meta, nanos) ==
  IF HasTxnId(meta) THEN <<extract_txn_id(meta[1])[1], meta[1]>>
  ELSE LET id == generate_txn_id(nanos)
       IN IF IsSome(meta) /\ ~TrimIsEmpty(meta[1])
          THEN <<id, Trim(meta[1]) \o <<",", " ">> \o TxnColon \o id>>
          ELSE <<id, TxnColon \o id>>

yyyymm_from_datetime(datetime) ==
  IF Len(datetime) < 7 THEN None
  ELSE LET year == SubSeq(datetime, 1, 4)
           month == SubSeq(datetime, 6, 7)
       IN IF AllIn(year, AsciiDigit) /\ AllIn(month, AsciiDigit)
          THEN Some(year \o month) ELSE None

posting_to_text(posting) ==
  LET out == FourSpaces \o posting.account \o <<" ">> \o posting.amount_text
               \o <<" ">> \o posting.commodity
      rem == IF IsSome(posting.remainder) /\ ~TrimIsEmpty(posting.remainder[1])
             THEN Some(Trim(posting.remainder[1])) ELSE None
  IN IF IsSome(rem) THEN out \o <<" ">> \o rem[1] ELSE out

\* the text of a transaction: its header, its postings and an empty last piece
transaction_to_text(txn, forced_meta) ==
  LET header == txn.datetime \o <<" ">>
          \o (IF IsSome(txn.status) THEN <<txn.status[1], " ">> ELSE <<>>)
          \o (IF IsSome(txn.payee) THEN quote(txn.payee[1]) \o <<" ">> ELSE <<>>)
          \o (IF IsSome(txn.narration) THEN quote(txn.narration[1]) \o <<" ">> ELSE <<>>)
          \o <<";", " ">> \o forced_meta
  IN <<header>>
       \o [i \in 1..Len(txn.postings) |-> posting_to_text(txn.postings[i])]
       \o <<(<<>>)>>

manual_to_transaction(input) ==
  [date |-> IF Len(input.datetime) >= 10 THEN SubSeq(input.datetime, 1, 10)
            ELSE input.datetime,
   datetime |-> input.datetime,
   status |-> input.status,
   payee |-> Some(input.payee),
   narration |-> Some(input.narration),
   meta |-> None,
   postings |-> [i \in 1..Len(input.postings) |->
                   [account |-> input.postings[i].account,
                    amount |-> parse_f64(input.postings[i].amount),
                    amount_text |-> input.postings[i].amount,
                    commodity |-> input.postings[i].commodity,
                    remainder |-> input.postings[i].remainder]]]

\* what append_text puts between the (normalized) existing text and the new one
WithSeparator(existing) ==
  IF existing = EmptyText THEN existing
  ELSE IF EndsWithTwoNewlines(existing) THEN existing
  ELSE IF EndsWithNewline(existing) THEN Append(existing, <<>>)
  ELSE existing \o << <<>>, <<>> >>

append_text(fs, path, text) ==
  IF ~PathExists(fs, path) THEN FsWrite(fs, path, text)
  ELSE LET existing == normalize_blank_lines(ReadToString(fs, path))
       IN FsWrite(fs, path, TextCat(WithSeparator(existing), text))

\* insertion of x into the sorted sequence v, after the elements equal to it
RECURSIVE InsertSorted(_, _)
InsertSorted(v, x) ==
  IF Len(v) = 0 THEN <<x>>
  ELSE IF StrLeq(v[1], x) THEN <<v[1]>> \o InsertSorted(Tail(v), x)
  ELSE <<x>> \o v

\* a plausible slip: the paths persisted in the order they were recorded
Unsorted(v) == v

\* Vec<String>::sort (a stable sort)
RECURSIVE sort(_)
sort(v) == IF Len(v) = 0 THEN <<>> ELSE InsertSorted(sort(Front(v)), Last(v))

\* a plausible slip: the set replaced by the new element
InsertAlone(set, x) == {x}

\* HashSet::insert, on index.txn_ids
insert(set, x) == set \cup {x}

\* a plausible slip: the seen-set never consulted
NeverContains(set, x) == FALSE

\* HashSet::contains, on index.txn_ids
contains(set, x) == x \in set

\* Vec::contains
VecContains(v, x) == \E i \in 1..Len(v) : v[i] = x

\* `if !sources.paths.contains(p) { sources.paths.push(p) }`
RecordSource(paths, p) == IF VecContains(paths, p) THEN paths ELSE Append(paths, p)

\* a plausible slip: every transaction appended to the active file
ActiveFile(datetime, now_yyyymm) == generated_ledger_path

\* the destination of a transaction whose datetime is given
Destination(datetime, now_yyyymm) ==
  LET yyyymm == UnwrapOr(yyyymm_from_datetime(datetime), now_yyyymm)
  IN IF yyyymm = now_yyyymm THEN generated_ledger_path
     ELSE generated_archive_path(yyyymm)

\* 2026-01-15 * "P" "N" ; txn:a
\*     x:y 1 U
\*
\* 2026-02-03 "Q" ; k
\*     x:y 2 U
SourceA ==
  << <<"2","0","2","6","-","0","1","-","1","5"," ","*"," ","\"","P","\""," ",
       "\"","N","\""," ",";"," ","t","x","n",":","a">>,
     <<" "," "," "," ","x",":","y"," ","1"," ","U">>,
     <<>>,
     <<"2","0","2","6","-","0","2","-","0","3"," ","\"","Q","\""," ",";"," ","k">>,
     <<" "," "," "," ","x",":","y"," ","2"," ","U">>,
     <<>> >>

\* 2026-01-20 "R" ; txn:a
\*     x:y 3 U
\* 2026-01-21 "Z" ; txn:b
SourceB ==
  << <<"2","0","2","6","-","0","1","-","2","0"," ","\"","R","\""," ",";"," ",
       "t","x","n",":","a">>,
     <<" "," "," "," ","x",":","y"," ","3"," ","U">>,
     <<"2","0","2","6","-","0","1","-","2","1"," ","\"","Z","\""," ",";"," ",
       "t","x","n",":","b">>,
     <<>> >>

ParsedSourceA == parse_transactions(SourceA)

ParsedSourceB == parse_transactions(SourceB)

\* parse_transactions(text), evaluated once for each source text of the model
ParseSource(text) ==
  IF text = SourceA THEN ParsedSourceA
  ELSE IF text = SourceB THEN ParsedSourceB
  ELSE parse_transactions(text)

\* a plausible slip: no transaction taken to be without postings
NeverIsEmpty(v) == FALSE

\* Vec::is_empty, on txn.postings
is_empty(v) == Len(v) = 0

\* the loop of import_source_files over the transactions of one source file.
\* acc holds the directory, the in-memory index and registry, the counters and
\* the number of clock readings taken; clock[k] is the k-th reading.
RECURSIVE ImportTransactions(_, _, _, _, _)
ImportTransactions(acc, txns, j, now_yyyymm, clock) ==
  IF j > Len(txns) THEN acc
  ELSE LET txn == txns[j]
       IN IF is_empty(txn.postings)
          THEN ImportTransactions(acc, txns, j + 1, now_yyyymm, clock)
          ELSE LET gen == ~HasTxnId(txn.meta)
                   e == ensure_txn_id(txn.meta, IF gen THEN clock[acc.k + 1] ELSE 0)
                   id == e[1]
                   meta == e[2]
                   acc1 == [acc EXCEPT !.k = IF gen THEN @ + 1 ELSE @]
               IN IF contains(acc1.txn_ids, id)
                  THEN ImportTransactions(
                         [acc1 EXCEPT !.skipped_duplicates = @ + 1],
                         txns, j + 1, now_yyyymm, clock)
                  ELSE LET dest == Destination(txn.datetime, now_yyyymm)
                           text == transaction_to_text(txn, meta)
                       IN ImportTransactions(
                            [acc1 EXCEPT
                               !.fs = append_text(@, dest, text),
                               !.archived = IF dest = generated_ledger_path
                                            THEN @ ELSE @ + 1,
                               !.txn_ids = insert(@, id),
                               !.imported = @ + 1],
                            txns, j + 1, now_yyyymm, clock)

\* the source path that names the active ledger file of the base directory
PathLedger == <<"l">>

\* the file a source path names: the active ledger file of the directory fs
\* for PathLedger, the file src holds for any other path
FileAt(fs, src, p) == IF p = PathLedger THEN fs.ledger ELSE src[p]

\* the loop of import_source_files over the paths; src maps a path outside
\* the base directory to the source file there.  Reading a path that has no
\* file ends the call.
RECURSIVE ImportPaths(_, _, _, _, _, _)
ImportPaths(acc, paths, i, now_yyyymm, src, clock) ==
  IF i > Len(paths) THEN acc
  ELSE LET p == paths[i]
           acc1 == [acc EXCEPT !.paths = RecordSource(@, p)]
       IN IF ~FileAt(acc.fs, src, p).exists
          THEN [acc1 EXCEPT !.error = Some("failed to read source file")]
          ELSE ImportPaths(
                 ImportTransactions(acc1,
                                    ParseSource(FileAt(acc.fs, src, p).text).transactions,
                                    1, now_yyyymm, clock),
                 paths, i + 1, now_yyyymm, src, clock)

\* a plausible slip: the archived transactions not counted as imported
ActiveOnlyStats(acc) ==
  [imported |-> acc.imported - acc.archived,
   skipped_duplicates |-> acc.skipped_duplicates,
   archived |-> acc.archived]

\* the ImportStats the call returns
ImportStats(acc) ==
  [imported |-> acc.imported,
   skipped_duplicates |-> acc.skipped_duplicates,
   archived |-> acc.archived]

\* a plausible slip: a side file that does not decode is left as it is
ImportEndKeepingUndecodable(acc) ==
  IF IsSome(acc.error)
  THEN [fs |-> acc.fs, ok |-> FALSE, error |-> acc.error[1]]
  ELSE [fs |-> [acc.fs EXCEPT
                  !.sources = IF @.exists /\ ~@.valid THEN @
                              ELSE write_json([paths |-> sort(acc.paths)]),
                  !.index = IF @.exists /\ ~@.valid THEN @
                            ELSE write_json([txn_ids |-> acc.txn_ids])],
        ok |-> TRUE,
        stats |-> ImportStats(acc)]

\* the end of import_source_files, acc being what the loop over the paths
\* left: the error of the `?` that ended the loop, or the two side files
\* written and the ImportStats
ImportEnd(acc) ==
  IF IsSome(acc.error)
  THEN [fs |-> acc.fs, ok |-> FALSE, error |-> acc.error[1]]
  ELSE [fs |-> [acc.fs EXCEPT
                  !.sources = write_json([paths |-> sort(acc.paths)]),
                  !.index = write_json([txn_ids |-> acc.txn_ids])],
        ok |-> TRUE,
        stats |-> ImportStats(acc)]

\* import_source_files after its rotation step, fs being the directory then
ImportRotated(fs, now_yyyymm, paths, src, clock) ==
  ImportEnd(ImportPaths(
              [fs |-> fs,
               txn_ids |-> read_json(fs.index, [txn_ids |-> {}]).txn_ids,
               paths |-> read_json(fs.sources, [paths |-> <<>>]).paths,
               imported |-> 0, skipped_duplicates |-> 0, archived |-> 0,
               k |-> 0, error |-> None],
              paths, 1, now_yyyymm, src, clock))

\* a plausible slip: the import without the rotation before it
ImportWithoutRotation(fs0, now_yyyymm, paths, src, clock) ==
  ImportRotated(fs0, now_yyyymm, paths, src, clock)

\* import_source_files: the directory it leaves and what it returns
import_source_files(fs0, now_yyyymm, paths, src, clock) ==
  ImportRotated(rotate_ledger_if_needed(fs0, now_yyyymm),
                now_yyyymm, paths, src, clock)

\* add_manual_transaction, nanos being the clock reading of generate_txn_id
add_manual_transaction(fs, now_yyyymm, input, nanos) ==
  LET idx == read_json(fs.index, [txn_ids |-> {}])
      txn == manual_to_transaction(input)
      e == ensure_txn_id(None, nanos)
      id == e[1]
      meta == e[2]
  IN IF contains(idx.txn_ids, id)
     THEN [fs |-> fs, ok |-> FALSE, error |-> "generated txn id collided; retry"]
     ELSE LET dest == Destination(txn.datetime, now_yyyymm)
              text == transaction_to_text(txn, meta)
              fs1 == append_text(fs, dest, text)
          IN [fs |-> [fs1 EXCEPT
                        !.index = write_json([txn_ids |-> insert(idx.txn_ids, id)])],
              ok |-> TRUE, id |-> id]

Usd == <<"U", "S", "D">>

\* a plausible slip: a declaration whose account line the active file already
\* has is not appended again
AddDeclarationOnce(fs, account_name, currency, opening_balance) ==
  LET line1 == Account7 \o <<" ">> \o account_name
                 \o (IF IsSome(currency) THEN <<" ">> \o currency[1] ELSE <<>>)
      text == IF IsSome(opening_balance)
              THEN <<line1,
                     FourSpaces \o Opening7 \o <<" ">> \o opening_balance[1]
                       \o <<" ">> \o UnwrapOr(currency, Usd),
                     <<>> >>
              ELSE <<line1, <<>> >>
  IN IF fs.ledger.exists /\ \E k \in 1..Len(fs.ledger.text) : fs.ledger.text[k] = line1
     THEN fs
     ELSE append_text(fs, generated_ledger_path, text)

add_account_declaration(fs, account_name, currency, opening_balance) ==
  LET line1 == Account7 \o <<" ">> \o account_name
                 \o (IF IsSome(currency) THEN <<" ">> \o currency[1] ELSE <<>>)
      text == IF IsSome(opening_balance)
              THEN <<line1,
                     FourSpaces \o Opening7 \o <<" ">> \o opening_balance[1]
                       \o <<" ">> \o UnwrapOr(currency, Usd),
                     <<>> >>
              ELSE <<line1, <<>> >>
  IN append_text(fs, generated_ledger_path, text)

EmptyParseResult ==
  [ok |-> TRUE, diagnostics |-> <<>>, transactions |-> <<>>, balances |-> <<>>]

\* a plausible slip: the normalized text is written back unconditionally
LoadAlwaysWrites(fs, normalized) ==
  [fs |-> [fs EXCEPT !.ledger = TextFile(normalized)],
   wrote |-> TRUE,
   result |-> parse_transactions(normalized)]

\* load_active_ledger on a ledger that exists, normalized being its
\* normalized contents
LoadNormalized(fs, normalized) ==
  [fs |-> IF normalized # fs.ledger.text
          THEN [fs EXCEPT !.ledger = TextFile(normalized)] ELSE fs,
   wrote |-> normalized # fs.ledger.text,
   result |-> parse_transactions(normalized)]

\* load_active_ledger: the directory it leaves and the ParseResult it returns
load_active_ledger(fs) ==
  IF ~fs.ledger.exists
  THEN [fs |-> fs, wrote |-> FALSE, result |-> EmptyParseResult]
  ELSE LoadNormalized(fs, normalize_blank_lines(fs.ledger.text))

(***************************************************************************)
(* The store as a state machine: one action per store operation, on a      *)
(* directory that starts empty.  The calls draw their arguments from the   *)
(* sets below.                                                             *)
(***************************************************************************)
\* a behaviour makes at most MaxCalls store calls
MaxCalls == 3

\* the system clock reads 1..MaxClock
MaxClock == 2

\* add_account_declaration is called at most MaxDecls times
MaxDecls == 2

\* at most MaxFailures calls of import_source_files return an error
MaxFailures == 1

\* "202601", "202602"
Jan == <<"2","0","2","6","0","1">>
Feb == <<"2","0","2","6","0","2">>

NowValues == {Jan, Feb}

PathA == <<"a">>
PathB == <<"b">>
PathC == <<"c">>

\* the source files: none at the path "c"
SourceFiles ==
  (PathA :> TextFile(SourceA)) @@ (PathB :> TextFile(SourceB)) @@ (PathC :> NoFile)

PathLists == {<<PathA>>, <<PathB>>, <<PathB, PathA>>, <<PathA, PathC>>, <<PathLedger>>}

APosting ==
  [account |-> <<"x", ":", "y">>, amount |-> <<"1">>, commodity |-> <<"U">>,
   remainder |-> None]

\* 2026-01-15, status *, payee M, narration n
ManualJan ==
  [datetime |-> <<"2","0","2","6","-","0","1","-","1","5">>, status |-> Some("*"),
   payee |-> <<"M">>, narration |-> <<"n">>, postings |-> <<APosting>>]

\* 2026-02-03, no status, payee a;b, empty narration
ManualFeb ==
  [datetime |-> <<"2","0","2","6","-","0","2","-","0","3">>, status |-> None,
   payee |-> <<"a", ";", "b">>, narration |-> <<>>, postings |-> <<APosting>>]

ManualInputs == {ManualJan, ManualFeb}

\* account x:y U / opening 5, and account x:y
DeclInputs ==
  {[account_name |-> <<"x", ":", "y">>, currency |-> Some(<<"U">>),
    opening_balance |-> Some(<<"5">>)],
   [account_name |-> <<"x", ":", "y">>, currency |-> None,
    opening_balance |-> None]}

\* the transactions of a text that import_source_files writes or counts
WithPostings(txns) == SelectSeq(txns, LAMBDA t : Len(t.postings) > 0)

\* the store's directory in the current state
Dir == [ledger |-> ledger, archive |-> archive, index |-> index, sources |-> sources]

\* the number of clock readings import_source_files takes on these paths
RECURSIVE ClockReadings(_, _)
ClockReadings(paths, i) ==
  IF i > Len(paths) \/ ~FileAt(Dir, SourceFiles, paths[i]).exists THEN 0
  ELSE Len(SelectSeq(
             WithPostings(
               ParseSource(FileAt(Dir, SourceFiles, paths[i]).text).transactions),
             LAMBDA t : ~HasTxnId(t.meta)))
       + ClockReadings(paths, i + 1)

SetDir(fs) ==
  /\ ledger' = fs.ledger
  /\ archive' = fs.archive
  /\ index' = fs.index
  /\ sources' = fs.sources

(***************************************************************************)
(* Normalizer study: the normalizer applied, and applied again, to every   *)
(* text of at most MaxNormLines pieces over NormLines.                     *)
(***************************************************************************)
MaxNormLines == 5

\* "2026-01-15 x"
NHeader == <<"2","0","2","6","-","0","1","-","1","5"," ","x">>
\* "    a:b 1 U"
NPosting == <<" "," "," "," ","a",":","b"," ","1"," ","U">>
\* "; c"
NComment == <<";"," ","c">>

NormLines == {<<>>, <<" ">>, FourSpaces, NHeader, NPosting, NComment}

NormTexts == UNION {[1..n -> NormLines] : n \in 1..MaxNormLines}

NoCall == [op |-> "none"]

StoreInit ==
  /\ ledger = NoFile
  /\ archive = <<>>
  /\ index = NoFile
  /\ sources = NoFile
  /\ last = NoCall
  /\ ndecl = 0
  /\ nfail = 0
  /\ ncalls = 0

\* the parser study has not started, on the empty text
ParseIdle ==
  /\ ptext = EmptyText
  /\ pres = None
  /\ prt = None

Init ==
  /\ StoreInit
  /\ nin = EmptyText
  /\ nout = <<>>
  /\ ParseIdle

\* one more store call, within the budget
Called == ncalls < MaxCalls /\ ncalls' = ncalls + 1

\* the step of a call of rotate_ledger_if_needed that left the directory fs
Rotated(now, fs) ==
  /\ Called
  /\ SetDir(fs)
  /\ last' = [op |-> "rotate", now |-> now, changed |-> fs # Dir]
  /\ UNCHANGED <<ndecl, nfail, normVars, parseVars>>

Rotate(now) == Rotated(now, rotate_ledger_if_needed(Dir, now))

\* what a call returned: r without the directory it left
Returned(r) == [x \in DOMAIN r \ {"fs"} |-> r[x]]

\* the step of a call of import_source_files that left and returned r
Imported(now, paths, r) ==
  /\ Called
  /\ r.ok \/ nfail < MaxFailures
  /\ nfail' = IF r.ok THEN nfail ELSE nfail + 1
  /\ SetDir(r.fs)
  /\ last' = [op |-> "import", now |-> now, paths |-> paths, res |-> Returned(r)]
  /\ UNCHANGED <<ndecl, normVars, parseVars>>

Import(now, paths, clock) ==
  Imported(now, paths, import_source_files(Dir, now, paths, SourceFiles, clock))

\* the step of a call of add_manual_transaction that read nanos on the system
\* clock and left and returned r
ManualAdded(now, input, nanos, r) ==
  /\ Called
  /\ SetDir(r.fs)
  /\ last' = [op |-> "manual", now |-> now, input |-> input, nanos |-> nanos,
              res |-> Returned(r)]
  /\ UNCHANGED <<ndecl, nfail, normVars, parseVars>>

AddManual(now, input, nanos) ==
  ManualAdded(now, input, nanos, add_manual_transaction(Dir, now, input, nanos))

AddAccount(d) ==
  /\ Called
  /\ ndecl < MaxDecls
  /\ ndecl' = ndecl + 1
  /\ SetDir(add_account_declaration(Dir, d.account_name, d.currency, d.opening_balance))
  /\ last' = [op |-> "account", input |-> d]
  /\ UNCHANGED <<nfail, normVars, parseVars>>

\* the step of a call of load_active_ledger that left and returned r
Loaded(r) ==
  /\ Called
  /\ SetDir(r.fs)
  /\ last' = [op |-> "load", res |-> r.result, wrote |-> r.wrote]
  /\ UNCHANGED <<ndecl, nfail, normVars, parseVars>>

Load == Loaded(load_active_ledger(Dir))

Next ==
  \/ \E now \in NowValues : Rotate(now)
  \/ \E now \in NowValues, paths \in PathLists :
       \E clock \in [1..ClockReadings(paths, 1) -> 1..MaxClock] :
         Import(now, paths, clock)
  \/ \E now \in NowValues, input \in ManualInputs, nanos \in 1..MaxClock :
       AddManual(now, input, nanos)
  \/ \E d \in DeclInputs : AddAccount(d)
  \/ Load

Spec == Init /\ [][Next]_vars

NormInit ==
  /\ StoreInit
  /\ nin \in NormTexts
  /\ nout = <<>>
  /\ ParseIdle

Normalize ==
  /\ Len(nout) = 0
  /\ nout' = <<normalize_blank_lines(nin)>>
  /\ UNCHANGED <<nin, storeVars, parseVars>>

NormalizeAgain ==
  /\ Len(nout) = 1
  /\ nout' = Append(nout, normalize_blank_lines(nout[1]))
  /\ UNCHANGED <<nin, storeVars, parseVars>>

NormNext == Normalize \/ NormalizeAgain

SpecNorm == NormInit /\ [][NormNext]_vars

(***************************************************************************)
(* Parser study: parse_transactions applied to every text of at most       *)
(* MaxParseLines lines over ParseLineSet and to every text of RoundTexts;   *)
(* then a transaction of the result that has postings is rendered as       *)
(* import_source_files renders it (ensure_txn_id, transaction_to_text) and *)
(* the rendered text is parsed again.                                      *)
(***************************************************************************)
MaxParseLines == 4

\* (the empty line)
LBlank ==
  <<>>

\* 2026-01-15 * P ; txn:a
LHeader ==
  <<"2","0","2","6","-","0","1","-","1","5"," ","*"," ","P"," ",";"," ","t",
    "x","n",":","a">>

\*     x:y 1 U
LPostXY ==
  <<" "," "," "," ","x",":","y"," ","1"," ","U">>

\*     a:b -2.5 U
LPostAB ==
  <<" "," "," "," ","a",":","b"," ","-","2",".","5"," ","U">>

\*     x:y 3 C
LPostXYC ==
  <<" "," "," "," ","x",":","y"," ","3"," ","C">>

\*     x:y
LNoAmount ==
  <<" "," "," "," ","x",":","y">>

\*     abc
LBadAccount ==
  <<" "," "," "," ","a","b","c">>

\*     x:y 1
LNoCommodity ==
  <<" "," "," "," ","x",":","y"," ","1">>

\* account x:y U
LAccountU ==
  <<"a","c","c","o","u","n","t"," ","x",":","y"," ","U">>

\* account a:b
LAccount ==
  <<"a","c","c","o","u","n","t"," ","a",":","b">>

\*     opening 5
LOpening ==
  <<" "," "," "," ","o","p","e","n","i","n","g"," ","5">>

\*     opening 1.5 C
LOpeningC ==
  <<" "," "," "," ","o","p","e","n","i","n","g"," ","1",".","5"," ","C">>

\* 2026-02-03 Q
LHeaderFeb ==
  <<"2","0","2","6","-","0","2","-","0","3"," ","Q">>

\*     ; c
LComment ==
  <<" "," "," "," ",";"," ","c">>

ParseLineSet ==
  {LBlank, LHeader, LPostXY, LPostAB, LPostXYC, LNoAmount,
   LBadAccount, LNoCommodity, LAccountU, LAccount, LOpening, LOpeningC,
   LHeaderFeb, LComment}

\* the text whose lines are given, each ended by a newline
TextOf(ls) == Append(ls, <<>>)

ParseTexts == {TextOf(ls) : ls \in UNION {[1..n -> ParseLineSet] : n \in 1..MaxParseLines}}

\* The headers of RoundTexts: a date or a date and time, an optional status,
\* an optional payee with an optional narration, and a meta comment.
HDatetimes ==
  {<<"2","0","2","6","-","0","1","-","1","5">>,
   <<"2","0","2","6","-","0","1","-","1","5","T","1","0",":","0","0",":","0","0","Z">>}

\* nothing, "* ", "! "
HStatuses == {<<>>, <<"*", " ">>, <<"!", " ">>}

\* the payee as the source writes it: P  "a b"  "q\"r"  a\b  ""  Café  "é"
HPayees ==
  {<<"P">>,
   <<"\"","a"," ","b","\"">>,
   <<"\"","q","\\","\"","r","\"">>,
   <<"a","\\","b">>,
   <<"\"","\"">>,
   <<"C","a","f","U+E9">>,
   <<"\"","U+E9","\"">>}

\* the narration as the source writes it, after the payee: nothing, N,
\* n1  n2 (two tokens), "x y"
HNarrations ==
  {<<>>,
   <<" ","N">>,
   <<" ","n","1"," "," ","n","2">>,
   <<" ","\"","x"," ","y","\"">>}

\* the meta comment: txn:a, k, txn:a, src:b, the empty comment, txn:
HMetas ==
  {<<"t","x","n",":","a">>,
   <<"k">>,
   <<"t","x","n",":","a",","," ","s","r","c",":","b">>,
   <<>>,
   <<"t","x","n",":">>}

\* a header without payee, and the headers with one
HDetails == {<<>>} \cup {p \o n \o <<" ">> : p \in HPayees, n \in HNarrations}

Headers ==
  {d \o <<" ">> \o st \o det \o <<";">> \o (IF m = <<>> THEN <<>> ELSE <<" ">> \o m) :
     d \in HDatetimes, st \in HStatuses, det \in HDetails, m \in HMetas}

\*     x:y 1 U {r  s} ; t
LPostRemainder ==
  <<" "," "," "," ","x",":","y"," ","1"," ","U"," ","{","r"," "," ","s","}",
    " ",";"," ","t">>

\* the postings of a text of RoundTexts
HPostings == {<<LPostXY>>, <<LPostRemainder, LPostAB>>}

RoundTexts == {TextOf(<<h>> \o ps) : h \in Headers, ps \in HPostings}

ParseInit ==
  /\ StoreInit
  /\ nin = EmptyText
  /\ nout = <<>>
  /\ ptext \in ParseTexts \cup RoundTexts
  /\ pres = None
  /\ prt = None

\* parse_transactions(ptext)
Parse ==
  /\ pres = None
  /\ pres' = Some(parse_transactions(ptext))
  /\ UNCHANGED <<ptext, prt, storeVars, normVars>>

\* the transaction rendered with the identifier and meta e that ensure_txn_id
\* gave it, and the ParseResult of the rendered text
Rendered(txn, e) ==
  [txn |-> txn, id |-> e[1], meta |-> e[2],
   result |-> parse_transactions(transaction_to_text(txn, e[2]))]

\* the j-th transaction of the result rendered and parsed again, nanos being
\* the clock reading of generate_txn_id
RoundTrip(j, nanos) ==
  /\ IsSome(pres) /\ prt = None
  /\ j \in 1..Len(pres[1].transactions)
  /\ Len(pres[1].transactions[j].postings) > 0
  /\ prt' = Some(Rendered(pres[1].transactions[j],
                          ensure_txn_id(pres[1].transactions[j].meta, nanos)))
  /\ UNCHANGED <<ptext, pres, storeVars, normVars>>

ParseNext ==
  \/ Parse
  \/ \E j \in 1..MaxParseLines, nanos \in 1..MaxClock : RoundTrip(j, nanos)

SpecParse == ParseInit /\ [][ParseNext]_vars

(***************************************************************************)
(* Load study: the store calls load_active_ledger on a directory whose     *)
(* active file is absent or holds any text of at most MaxLoadLines lines   *)
(* over ParseLineSet (the file is the user's to edit), and the same text   *)
(* is given to parse_transactions.                                         *)
(***************************************************************************)
MaxLoadLines == 3

LoadTexts == {TextOf(ls) : ls \in UNION {[1..n -> ParseLineSet] : n \in 1..MaxLoadLines}}

LoadInit ==
  /\ ptext \in LoadTexts
  /\ ledger \in {NoFile, TextFile(ptext)}
  /\ archive = <<>>
  /\ index = NoFile
  /\ sources = NoFile
  /\ last = NoCall
  /\ ndecl = 0
  /\ nfail = 0
  /\ ncalls = 0
  /\ nin = EmptyText
  /\ nout = <<>>
  /\ pres = None
  /\ prt = None

LoadNext == Parse \/ Load

SpecLoad == LoadInit /\ [][LoadNext]_vars

(***************************************************************************)
(* What can be observed of the directory                                   *)
(***************************************************************************)
\* every character of every piece of the text is whitespace
BlankText(t) == \A i \in 1..Len(t) : \A j \in 1..Len(t[i]) : t[i][j] \in WhiteSpace

\* the files under the base directory that hold ledger text
Files == (IF ledger.exists THEN {generated_ledger_path} ELSE {})
           \cup {[dir |-> "archive", name |-> n] : n \in DOMAIN archive}

\* the transactions the parser reads in a text
TransactionsOf(text) == parse_transactions(text).transactions

\* the transactions of the file at a path, none when no file is there
TransactionsAt(fs, path) ==
  IF PathExists(fs, path) THEN TransactionsOf(ReadToString(fs, path)) ELSE <<>>

\* the identifier each of the transactions carries in its meta comment
IdsOf(txns) ==
  [i \in 1..Len(txns) |->
     IF HasTxnId(txns[i].meta) THEN extract_txn_id(txns[i].meta[1]) ELSE None]

\* for each file, the identifiers of its transactions, in order
StoredIds == [f \in Files |-> IdsOf(TransactionsAt(Dir, f))]

\* the identifiers in a sequence of optional identifiers
IdSet(ids) == {ids[i][1] : i \in {k \in 1..Len(ids) : IsSome(ids[k])}}

\* no identifier is carried by two transactions of the files of S
NoIdTwice(S) ==
  /\ \A f \in DOMAIN S : \A i, j \in 1..Len(S[f]) :
       (i # j /\ IsSome(S[f][i])) => S[f][i] # S[f][j]
  /\ \A f, g \in DOMAIN S : f # g => IdSet(S[f]) \cap IdSet(S[g]) = {}

\* the identifiers index.json holds
SeenIds(file) == IF file.exists THEN file.value.txn_ids ELSE {}

\* the paths sources.json holds
SourcePaths(file) == IF file.exists THEN file.value.paths ELSE <<>>

\* the step taken is a store call
CallStep == ncalls' = ncalls + 1

(***************************************************************************)
(* C1.  While every import_source_files call so far has succeeded, no      *)
(* transaction identifier is carried by more than one transaction of the   *)
(* active ledger file and the archive files (whatever other store calls    *)
(* were made in between).                                                  *)
(***************************************************************************)
C1_AtMostOnce == nfail = 0 => NoIdTwice(StoredIds)

\* an import has just skipped a transaction whose identifier was seen
C1_Witness ==
  /\ nfail = 0
  /\ last.op = "import" /\ last.res.ok
  /\ last.res.stats.skipped_duplicates > 0
  /\ \E f \in Files : IdSet(StoredIds[f]) # {}

(***************************************************************************)
(* C2.  A successful import of one source file, directly after a           *)
(* successful import of the same file with the same currentYearMonth,      *)
(* returns imported = 0 and skipped_duplicates = the number of             *)
(* transactions (with postings) of the file, and leaves the active file    *)
(* and the archive files as they were.                                     *)
(***************************************************************************)
C2_SecondImportAddsNothing ==
  [][(/\ CallStep
      /\ last.op = "import" /\ last.res.ok
      /\ last'.op = "import" /\ last'.res.ok
      /\ Len(last.paths) = 1 /\ last'.paths = last.paths /\ last'.now = last.now)
     => /\ last'.res.stats.imported = 0
        /\ last'.res.stats.skipped_duplicates =
             Len(WithPostings(TransactionsOf(
                   FileAt(Dir, SourceFiles, last.paths[1]).text)))
        /\ ledger' = ledger
        /\ archive' = archive]_vars


\* the position of the first line that is neither blank nor a comment, from
\* the i-th on (past the last line when there is none)
RECURSIVE FirstEntryLine(_, _)
FirstEntryLine(ls, i) ==
  IF i <= Len(ls) /\ (is_blank(ls[i]) \/ is_directive(ls[i]))
  THEN FirstEntryLine(ls, i + 1) ELSE i

\* the year-month of the line when it is a transaction header, None otherwise
HeaderMonth(line) ==
  IF IsSome(header_datetime_re(line)) THEN yyyymm_from_datetime(SubSeq(line, 1, 10))
  ELSE None

\* the month in which the first entry of the text is dated: None when the
\* text has no entry or its first entry is not a transaction
FirstEntryMonthAt(ls, i) == IF i > Len(ls) THEN None ELSE HeaderMonth(ls[i])

FirstEntryMonth(text) == FirstEntryMonthAt(lines(text), FirstEntryLine(lines(text), 1))

\* archive directory new is old plus one file for month M that holds text,
\* under the unsuffixed name when that name was free
ArchivedAs(old, new, M, text) ==
  \E name \in DOMAIN new \ DOMAIN old :
    /\ name[1] = M
    /\ new[name] = text
    /\ <<M, 1>> \notin DOMAIN old => name = <<M, 1>>
    /\ DOMAIN new = DOMAIN old \cup {name}
    /\ \A n \in DOMAIN old : new[n] = old[n]

(***************************************************************************)
(* C3.  A call rotate_ledger_if_needed(base, N) on an active ledger that   *)
(* is not empty and whose first entry is dated in a month M other than N   *)
(* leaves the active file present and empty, and the archive directory     *)
(* with one more file, for month M (ledger-M.transactions when that name   *)
(* was free), that holds exactly the former active content.                *)
(***************************************************************************)
C3_RotationArchives ==
  [][(/\ CallStep
      /\ last'.op = "rotate"
      /\ ledger.exists /\ ~BlankText(ledger.text)
      /\ IsSome(FirstEntryMonth(ledger.text))
      /\ FirstEntryMonth(ledger.text)[1] # last'.now)
     => /\ ledger' = TextFile(EmptyText)
        /\ ArchivedAs(archive, archive', FirstEntryMonth(ledger.text)[1], ledger.text)]_vars

\* a rotation has just moved the active ledger to a suffixed archive file,
\* the unsuffixed name being taken
C3_Witness ==
  /\ last.op = "rotate" /\ last.changed
  /\ ledger = TextFile(EmptyText)
  /\ \E n \in DOMAIN archive : n[2] = 2 /\ n[1] # last.now /\ ~BlankText(archive[n])

(***************************************************************************)
(* C4.  A call rotate_ledger_if_needed(base, N) changes no file under the  *)
(* base directory when the active file is absent, when its content is      *)
(* empty once trimmed, when the year-month derived from it equals N, or    *)
(* when the call before it was also a rotation with the same N.            *)
(***************************************************************************)
C4_RotationNoOp ==
  [][(/\ CallStep
      /\ last'.op = "rotate"
      /\ \/ ~ledger.exists
         \/ BlankText(ledger.text)
         \/ UnwrapOr(parse_yyyymm_from_contents(ledger.text), Unknown) = last'.now
         \/ (last.op = "rotate" /\ last.now = last'.now))
     => /\ ledger' = ledger
        /\ archive' = archive
        /\ index' = index
        /\ sources' = sources]_vars

\* a rotation has just left alone an active ledger of the current month that
\* holds a transaction, next to an archive file of another month
C4_Witness ==
  /\ last.op = "rotate" /\ ~last.changed
  /\ ledger.exists /\ FirstEntryMonth(ledger.text) = Some(last.now)
  /\ \E n \in DOMAIN archive : n[1] # last.now


(***************************************************************************)
(* C5.  normalize_blank_lines is idempotent: normalizing the output of a   *)
(* normalization returns that output unchanged.                            *)
(***************************************************************************)
C5_Idempotent == Len(nout) = 2 => nout[2] = nout[1]

\* a text that normalization changed has been normalized twice
C5_Witness == Len(nout) = 2 /\ nout[1] # nin

\* every character of the line is whitespace
BlankLine(line) == \A j \in 1..Len(line) : line[j] \in WhiteSpace

\* the line starts with YYYY-MM-DD
HeaderLooking(line) == looks_like_header_date(line)

\* the line is indented by four spaces and is not blank
PostingLooking(line) == StartsWith(line, FourSpaces) /\ ~BlankLine(line)

\* the number of blank lines directly before the j-th line of the text
RECURSIVE BlanksBefore(_, _)
BlanksBefore(t, j) ==
  IF j > 1 /\ BlankLine(t[j - 1]) THEN 1 + BlanksBefore(t, j - 1) ELSE 0

\* the j-th line of t is a header that follows the postings of an entry, b
\* blank lines before it: then b is 1
OneBlankBefore(t, j, b) ==
  (HeaderLooking(t[j]) /\ j - b > 1 /\ PostingLooking(t[j - b - 1])) => b = 1

(***************************************************************************)
(* C6.  In the output of normalize_blank_lines, every header-looking line  *)
(* that follows the posting lines of a previous entry has exactly one      *)
(* blank line between it and them.                                         *)
(***************************************************************************)
C6_ExactlyOneBlank ==
  Len(nout) >= 1 =>
    \A j \in 1..Len(nout[1]) : OneBlankBefore(nout[1], j, BlanksBefore(nout[1], j))

(***************************************************************************)
(* C7.  No store operation removes an identifier from index.json: every    *)
(* identifier in it before a step is in it after the step.                 *)
(***************************************************************************)
C7_IndexGrows == [][SeenIds(index) \subseteq SeenIds(index')]_vars

\* a manual add has just added its identifier to an index that held others
C7_Witness ==
  /\ last.op = "manual" /\ last.res.ok
  /\ last.res.id \in SeenIds(index)
  /\ Cardinality(SeenIds(index)) >= 3

\* the sequence of paths is sorted and holds no path twice
SortedNoDup(v) ==
  \A i \in 1..(Len(v) - 1) : StrLeq(v[i], v[i + 1]) /\ v[i] # v[i + 1]

Elements(v) == {v[i] : i \in 1..Len(v)}

(***************************************************************************)
(* C8.  After a successful import_source_files call, sources.json holds a  *)
(* sorted list without duplicates that contains every path it held before  *)
(* the call and every path passed to the call.                             *)
(***************************************************************************)
C8_SourcesSorted ==
  [][(CallStep /\ last'.op = "import" /\ last'.res.ok)
     => /\ sources'.exists
        /\ SortedNoDup(SourcePaths(sources'))
        /\ Elements(SourcePaths(sources)) \cup Elements(last'.paths)
             \subseteq Elements(SourcePaths(sources'))]_vars

\* an import of two paths, recorded out of order, has just succeeded on a
\* registry that now holds them sorted
C8_Witness ==
  /\ last.op = "import" /\ last.res.ok
  /\ last.paths = <<PathB, PathA>>
  /\ SourcePaths(sources) = <<PathA, PathB>>

\* every transaction is dated in month M
AllDatedIn(txns, M) ==
  \A i \in 1..Len(txns) : yyyymm_from_datetime(txns[i].datetime) = Some(M)

(***************************************************************************)
(* C9.  After a successful import_source_files or add_manual_transaction   *)
(* call made with currentYearMonth M, every transaction of the active      *)
(* ledger file is dated in month M.                                        *)
(***************************************************************************)
C9_ActiveHoldsCurrentMonth ==
  (last.op \in {"import", "manual"} /\ last.res.ok)
    => AllDatedIn(TransactionsAt(Dir, generated_ledger_path), last.now)

\* the posting of a file's transaction carries the fields of the input's
SamePosting(posting, p) ==
  /\ posting.account = p.account
  /\ posting.amount_text = p.amount
  /\ posting.commodity = p.commodity
  /\ posting.remainder = p.remainder

\* the transaction carries txn:<id> in its meta and the payee, narration and
\* postings of the input
Carries(txn, input, id) ==
  /\ IsSome(txn.meta) /\ extract_txn_id(txn.meta[1]) = Some(id)
  /\ txn.payee = Some(input.payee)
  /\ txn.narration = Some(input.narration)
  /\ Len(txn.postings) = Len(input.postings)
  /\ \A i \in 1..Len(input.postings) : SamePosting(txn.postings[i], input.postings[i])

\* after is before with one more transaction at its end, which carries the
\* input and the identifier
OneMore(before, after, input, id) ==
  /\ Len(after) = Len(before) + 1
  /\ SubSeq(after, 1, Len(before)) = before
  /\ Carries(after[Len(after)], input, id)

\* the file a manual transaction belongs in: the active file when the input
\* date's year-month is M, archive/ledger-<yearmonth>.transactions otherwise
ManualDestination(input, M) ==
  IF yyyymm_from_datetime(input.datetime) = Some(M) THEN generated_ledger_path
  ELSE generated_archive_path(yyyymm_from_datetime(input.datetime)[1])

\* between the directories old and new, the file at dest gained one
\* transaction, which carries the input and the identifier, and no other file
\* gained or lost any
AppendedTo(old, new, dest, input, id) ==
  /\ OneMore(TransactionsAt(old, dest), TransactionsAt(new, dest), input, id)
  /\ dest.dir = "archive" => TransactionsAt(new, generated_ledger_path)
                               = TransactionsAt(old, generated_ledger_path)
  /\ \A n \in DOMAIN new.archive \cup DOMAIN old.archive :
       [dir |-> "archive", name |-> n] # dest
         => n \in DOMAIN old.archive /\ n \in DOMAIN new.archive
              /\ new.archive[n] = old.archive[n]

(***************************************************************************)
(* C10.  A successful add_manual_transaction(base, M, input) returns an    *)
(* identifier that was not in index.json before the call and is in it      *)
(* afterwards, and appends exactly one transaction, with txn:<that id> in  *)
(* its meta and the input's payee, narration and postings, to the active   *)
(* file when the input date's year-month is M and to                       *)
(* archive/ledger-<yearmonth>.transactions otherwise.                      *)
(***************************************************************************)
C10_ManualAppend ==
  [][(CallStep /\ last'.op = "manual" /\ last'.res.ok)
     => /\ last'.res.id \notin SeenIds(index)
        /\ last'.res.id \in SeenIds(index')
        /\ AppendedTo(Dir, Dir', ManualDestination(last'.input, last'.now),
                      last'.input, last'.res.id)]_vars

(***************************************************************************)
(* C11.  A call of add_manual_transaction whose generated identifier is    *)
(* already in index.json returns an error and leaves the active file, the  *)
(* archive files and index.json as they were.                              *)
(***************************************************************************)
C11_CollisionLeavesStore ==
  [][(/\ CallStep
      /\ last'.op = "manual"
      /\ generate_txn_id(last'.nanos) \in SeenIds(index))
     => /\ ~last'.res.ok
        /\ ledger' = ledger
        /\ archive' = archive
        /\ index' = index]_vars

\* a manual add has just failed on a store that holds an active ledger with
\* text, an archive file and the identifier the call generated
C11_Witness ==
  /\ last.op = "manual" /\ ~last.res.ok
  /\ generate_txn_id(last.nanos) \in SeenIds(index)
  /\ ledger.exists /\ ~BlankText(ledger.text)
  /\ DOMAIN archive # {}

\* the identifier a transaction carries in its meta comment
IdOf(txn) == IF IsSome(txn.meta) THEN extract_txn_id(txn.meta[1]) ELSE None

\* the postings p and q agree on account, amount text, commodity and remainder
SamePostings(p, q) ==
  /\ Len(p) = Len(q)
  /\ \A i \in 1..Len(p) :
       /\ p[i].account = q[i].account
       /\ p[i].amount_text = q[i].amount_text
       /\ p[i].commodity = q[i].commodity
       /\ p[i].remainder = q[i].remainder

\* the result of parsing a rendered transaction holds one transaction, which
\* has the status, payee, narration and postings of txn and carries the
\* identifier id (None, or Some(identifier))
ReadsBack(result, txn, id) ==
  /\ Len(result.transactions) = 1
  /\ result.transactions[1].status = txn.status
  /\ result.transactions[1].payee = txn.payee
  /\ result.transactions[1].narration = txn.narration
  /\ SamePostings(result.transactions[1].postings, txn.postings)
  /\ IdOf(result.transactions[1]) = id

(***************************************************************************)
(* C12.  A transaction that the parser produced with at least one posting, *)
(* rendered by transaction_to_text with the meta ensure_txn_id gives it    *)
(* and parsed again, reads back as one transaction with the same status,   *)
(* payee, narration and postings (account, amount text, commodity,         *)
(* remainder), and the identifier extracted from its meta is the one       *)
(* extracted from the meta that was rendered.                              *)
(***************************************************************************)
C12_RoundTrip ==
  IsSome(prt) => ReadsBack(prt[1].result, prt[1].txn, extract_txn_id(prt[1].meta))

\* the account declarations the parser holds at the end of a text
DeclarationsOf(text) ==
  FlushAccount(flush_transaction(ParseLines(ParserInit, lines(text), 1)))
    .account_declarations

\* the postings of all the transactions, in order
RECURSIVE AllPostings(_)
AllPostings(txns) ==
  IF Len(txns) = 0 THEN <<>> ELSE txns[1].postings \o AllPostings(Tail(txns))

\* the openings of the declarations: account, commodity, amount
RECURSIVE AllOpenings(_)
AllOpenings(decls) ==
  IF Len(decls) = 0 THEN <<>>
  ELSE (IF IsSome(decls[1].opening)
        THEN <<[account |-> decls[1].account,
                commodity |-> decls[1].opening[1].commodity,
                amount |-> decls[1].opening[1].amount]>>
        ELSE <<>>) \o AllOpenings(Tail(decls))

\* the sum of the amounts of the entries for account a and commodity c
RECURSIVE SumFor(_, _, _)
SumFor(entries, a, c) ==
  IF Len(entries) = 0 THEN 0
  ELSE (IF entries[1].account = a /\ entries[1].commodity = c
        THEN entries[1].amount ELSE 0) + SumFor(Tail(entries), a, c)

\* the commodities of the entries for account a
CommoditiesFor(entries, a) ==
  {entries[i].commodity : i \in {k \in 1..Len(entries) : entries[k].account = a}}

\* the strings v[i].<key> are strictly ascending, key(x) being the string of x
Ascends(v, key(_)) ==
  \A i \in 1..(Len(v) - 1) :
    StrLeq(key(v[i]), key(v[i + 1])) /\ key(v[i]) # key(v[i + 1])

AccountKey(x) == x.account

CommodityKey(x) == x.commodity

\* the totals of one account list, in ascending order, each commodity of its
\* entries once, with the sum of their amounts
TotalsMatch(totals, entries, a) ==
  /\ Ascends(totals, CommodityKey)
  /\ {totals[k].commodity : k \in 1..Len(totals)} = CommoditiesFor(entries, a)
  /\ \A k \in 1..Len(totals) :
       totals[k].amount = SumFor(entries, a, totals[k].commodity)

\* balances lists, in ascending order, each account of the entries (postings
\* and openings) and each declared account once, with the totals of its
\* entries
BalancesMatch(balances, entries, decls) ==
  /\ Ascends(balances, AccountKey)
  /\ {balances[i].account : i \in 1..Len(balances)}
       = {entries[i].account : i \in 1..Len(entries)}
           \cup {decls[i].account : i \in 1..Len(decls)}
  /\ \A i \in 1..Len(balances) :
       TotalsMatch(balances[i].totals, entries, balances[i].account)

\* the result's balances are those of its transactions and of decls
ResultBalanced(result, decls) ==
  BalancesMatch(result.balances,
                AllPostings(result.transactions) \o AllOpenings(decls), decls)

(***************************************************************************)
(* C13.  In the result of parse_transactions, balances lists each account  *)
(* that has a posting or a declaration exactly once, in ascending order of *)
(* account, each with its commodities in ascending order, and the total of *)
(* an account and commodity is the sum of the amounts of the postings to   *)
(* them over all transactions plus the opening amounts declared for them.  *)
(***************************************************************************)
C13_Balances == IsSome(pres) => ResultBalanced(pres[1], DeclarationsOf(ptext))

\* a text has been parsed in which an account has both a posting and an
\* opening in one commodity
C13_Witness ==
  /\ IsSome(pres)
  /\ \E i \in 1..Len(pres[1].balances) : \E k \in 1..Len(pres[1].balances[i].totals) :
       /\ SumFor(AllPostings(pres[1].transactions), pres[1].balances[i].account,
                 pres[1].balances[i].totals[k].commodity) # 0
       /\ SumFor(AllOpenings(DeclarationsOf(ptext)), pres[1].balances[i].account,
                 pres[1].balances[i].totals[k].commodity) # 0

\* ok is true exactly when the result has no diagnostic
OkIffNoDiagnostics(result) == result.ok <=> Len(result.diagnostics) = 0

(***************************************************************************)
(* C14.  In every ParseResult that parse_transactions or                   *)
(* load_active_ledger returns, ok is true exactly when diagnostics is      *)
(* empty.                                                                  *)
(***************************************************************************)
C14_OkIffNoDiagnostics ==
  /\ IsSome(pres) => OkIffNoDiagnostics(pres[1])
  /\ last.op = "load" => OkIffNoDiagnostics(last.res)

\* parse_transactions and load_active_ledger have both returned a result
\* with diagnostics for a text that normalization changes
C14_Witness ==
  /\ IsSome(pres) /\ ~pres[1].ok /\ Len(pres[1].diagnostics) > 0
  /\ last.op = "load" /\ ~last.res.ok /\ Len(last.res.diagnostics) > 0
  /\ ledger.exists /\ ledger.text # ptext

\* the parser's state before the i-th line of the text
StateBefore(text, i) == ParseLines(ParserInit, SubSeq(lines(text), 1, i - 1), 1)

\* the line is indented by four spaces and holds one token, which does not
\* start a comment
AccountOnly(line) ==
  /\ StartsWith(line, FourSpaces)
  /\ ~is_directive(line)
  /\ Len(split_whitespace(From(line, 5))) = 1

\* the diagnostics of the result that are recorded for line i
DiagnosticsAt(result, i) == SelectSeq(result.diagnostics, LAMBDA d : d.line = i)

\* the number of diagnostics of ds whose fixed text is text
CountOf(ds, text) == Cardinality({k \in 1..Len(ds) : ds[k].message[1] = text})

\* what a posting line without amount does: one "missing amount", no
\* diagnostic about an amount's validity or a commodity, the parser's
\* transactions as they were before the line
MissingAmountOnly(before, after, ds) ==
  /\ CountOf(ds, "missing amount") = 1
  /\ CountOf(ds, "invalid amount: ") = 0
  /\ CountOf(ds, "missing commodity") = 0
  /\ CountOf(ds, "invalid commodity: ") = 0
  /\ after.current = before.current
  /\ after.transactions = before.transactions

(***************************************************************************)
(* C15.  A line, read while a transaction is open, that is indented and    *)
(* holds an account token and nothing else records one "missing amount"    *)
(* diagnostic and no "invalid amount", "missing commodity" or "invalid     *)
(* commodity" diagnostic for that line, adds no posting to the open        *)
(* transaction, and the result has ok false.                               *)
(***************************************************************************)
C15_MissingAmount ==
  IsSome(pres) =>
    \A i \in 1..Len(lines(ptext)) :
      (AccountOnly(lines(ptext)[i]) /\ IsSome(StateBefore(ptext, i).current))
        => /\ MissingAmountOnly(StateBefore(ptext, i), StateBefore(ptext, i + 1),
                                DiagnosticsAt(pres[1], i))
           /\ ~pres[1].ok

\* a text has been parsed in which a posting line without amount follows a
\* posting of the same transaction
C15_Witness ==
  /\ IsSome(pres)
  /\ \E i \in 1..Len(lines(ptext)) :
       /\ AccountOnly(lines(ptext)[i])
       /\ IsSome(StateBefore(ptext, i).current)
       /\ Len(StateBefore(ptext, i).current[1][2].postings) > 0

\* the tokens of an indented line of an account declaration, before its
\* comment
EntryTokens(line) ==
  split_whitespace(IF IsSome(split_once(From(line, 5), ";"))
                   THEN split_once(From(line, 5), ";")[1][1] ELSE From(line, 5))

\* the line is `opening <amount>`, indented, with a well-formed amount and
\* nothing after it
OpeningWithoutCommodity(line) ==
  /\ StartsWith(line, FourSpaces)
  /\ ~is_directive(line)
  /\ Len(EntryTokens(line)) = 2
  /\ EntryTokens(line)[1] = Opening7
  /\ amount_re(EntryTokens(line)[2])

\* the parser state has an account declaration open and no transaction
DeclarationOpen(ps) == ~IsSome(ps.current) /\ IsSome(ps.current_account)

\* the declaration open in the parser state
OpenDecl(ps) == ps.current_account[1][2]

\* the totals that balances lists for account a in commodity c
TotalsOf(balances, a, c) ==
  UNION {{balances[i].totals[k].amount :
            k \in {j \in 1..Len(balances[i].totals) :
                     balances[i].totals[j].commodity = c}} :
           i \in {j \in 1..Len(balances) : balances[j].account = a}}

\* the number of entries (postings, openings) for account a in commodity c
EntriesFor(entries, a, c) ==
  Cardinality({k \in 1..Len(entries) :
                 entries[k].account = a /\ entries[k].commodity = c})

\* an opening of amount in the default commodity of the open declaration d:
\* the declaration holds it after the line, the line has no diagnostic, and
\* the result lists a total for the account in that commodity, which is the
\* amount when this opening is the only entry for them
TakesDefault(d, amount, after, ds, result, entries) ==
  /\ OpenDecl(after).opening
       = Some([commodity |-> d.default_commodity[1], amount |-> amount])
  /\ Len(ds) = 0
  /\ TotalsOf(result.balances, d.account, d.default_commodity[1]) # {}
  /\ EntriesFor(entries, d.account, d.default_commodity[1]) = 1
       => TotalsOf(result.balances, d.account, d.default_commodity[1]) = {amount}

\* no commodity and no default: the diagnostic, and the declaration as it was
NoCommodity(before, after, ds) ==
  /\ CountOf(ds, "opening missing commodity and account has no default commodity") = 1
  /\ after.current_account = before.current_account

\* what the i-th line, an opening without commodity read in the state
\* before, does: after is the state after it, ds the diagnostics for it
OpeningEffect(before, amount, after, ds, result, entries) ==
  IF ~IsSome(OpenDecl(before).default_commodity)
  THEN NoCommodity(before, after, ds)
  ELSE (commodity_re(OpenDecl(before).default_commodity[1])
        /\ ~IsSome(OpenDecl(before).opening))
         => TakesDefault(OpenDecl(before), amount, after, ds, result, entries)

(***************************************************************************)
(* C16.  An opening line without commodity, read while an account          *)
(* declaration is open: when the declaration has a (well-formed) default   *)
(* commodity and no opening yet, the declaration takes the opening amount  *)
(* in the default commodity, no diagnostic is recorded for the line and    *)
(* the account's balance in that commodity is the opening amount (when     *)
(* nothing else is posted or opened for them); when the declaration has no *)
(* default commodity, a diagnostic is recorded for the line and the        *)
(* declaration stores no opening.                                          *)
(***************************************************************************)
C16_OpeningDefault ==
  IsSome(pres) =>
    \A i \in 1..Len(lines(ptext)) :
      (OpeningWithoutCommodity(lines(ptext)[i])
         /\ DeclarationOpen(StateBefore(ptext, i)))
        => OpeningEffect(StateBefore(ptext, i),
                         parse_f64(EntryTokens(lines(ptext)[i])[2]),
                         StateBefore(ptext, i + 1),
                         DiagnosticsAt(pres[1], i), pres[1],
                         AllPostings(pres[1].transactions)
                           \o AllOpenings(DeclarationsOf(ptext)))

\* a text has been parsed without diagnostics whose declaration of x:y, with
\* default commodity U, has an opening line without commodity: the balance
\* of x:y is the opening amount in U
C16_Witness ==
  /\ IsSome(pres) /\ pres[1].ok
  /\ \E i \in 1..Len(lines(ptext)) :
       /\ OpeningWithoutCommodity(lines(ptext)[i])
       /\ DeclarationOpen(StateBefore(ptext, i))
       /\ IsSome(OpenDecl(StateBefore(ptext, i)).default_commodity)
  /\ pres[1].balances
       = <<[account |-> <<"x", ":", "y">>,
            totals |-> <<[commodity |-> <<"U">>, amount |-> 5 * Pow10(AmountDigits)]>>]>>

(***************************************************************************)
(* C17.  A call of import_source_files leaves every source file it is      *)
(* given as it was: the file each path of the call names holds the same    *)
(* text after the call as before it.                                       *)
(***************************************************************************)
C17_SourcesUnchanged ==
  [][(CallStep /\ last'.op = "import")
     => \A i \in 1..Len(last'.paths) :
          FileAt(Dir', SourceFiles, last'.paths[i])
            = FileAt(Dir, SourceFiles, last'.paths[i])]_vars

\* the line, trimmed, starts with the date-like prefix DDDD-DD
DateLike(line) ==
  /\ Len(Trim(line)) >= 7
  /\ AllIn(SubSeq(Trim(line), 1, 4), AsciiDigit)
  /\ Trim(line)[5] = "-"
  /\ AllIn(SubSeq(Trim(line), 6, 7), AsciiDigit)

\* the year-month of the first line, from the i-th on, that starts with a
\* date-like prefix; None when there is no such line
RECURSIVE FirstDatedFrom(_, _)
FirstDatedFrom(ls, i) ==
  IF i > Len(ls) THEN None
  ELSE IF DateLike(ls[i])
       THEN Some(SubSeq(Trim(ls[i]), 1, 4) \o SubSeq(Trim(ls[i]), 6, 7))
  ELSE FirstDatedFrom(ls, i + 1)

\* the lines of a text that are neither blank nor comments
EntryLines(text) ==
  SelectSeq(lines(text), LAMBDA l : ~TrimIsEmpty(l) /\ Trim(l)[1] # ";")

\* the year-month of the first dated line of the text, "unknown" when it has
\* none
FirstDatedMonth(text) == UnwrapOr(FirstDatedFrom(EntryLines(text), 1), Unknown)

\* a rotation for year-month now of a ledger whose year-month is M: nothing
\* changes when M is now, the ledger is archived for M otherwise
RotatesAs(M, now, text) ==
  IF M = now THEN ledger' = ledger /\ archive' = archive
  ELSE ledger' = TextFile(EmptyText) /\ ArchivedAs(archive, archive', M, text)

(***************************************************************************)
(* C18.  A call rotate_ledger_if_needed(base, N) on an active ledger that  *)
(* is not blank treats it as the ledger of the year-month of its first     *)
(* line, among the lines that are neither blank nor comments, that starts  *)
(* with a date-like prefix, and as "unknown" only when it has no such      *)
(* line: it changes nothing when that year-month is N (whatever account    *)
(* declarations precede the line) and archives the ledger under that       *)
(* year-month otherwise.                                                   *)
(***************************************************************************)
C18_FirstDatedLine ==
  [][(/\ CallStep
      /\ last'.op = "rotate"
      /\ ledger.exists /\ ~BlankText(ledger.text))
     => RotatesAs(FirstDatedMonth(ledger.text), last'.now, ledger.text)]_vars

\* every file of the archive directory old is in new with the same text
ArchivesKept(old, new) ==
  \A n \in DOMAIN old : n \in DOMAIN new /\ new[n] = old[n]

\* the name n is the first one unused in the archive directory arch among
\* ledger-<ym>, ledger-<ym>-2, ledger-<ym>-3, ...
FirstUnused(arch, n) ==
  /\ n \notin DOMAIN arch
  /\ \A j \in 1..(n[2] - 1) : <<n[1], j>> \in DOMAIN arch

(***************************************************************************)
(* C19.  A call of rotate_ledger_if_needed returns with every archive file *)
(* that existed before it still there with the same text; the file it      *)
(* adds, if any, holds the former active content under the first unused    *)
(* name among ledger-<ym>, ledger-<ym>-2, ledger-<ym>-3, ...               *)
(***************************************************************************)
C19_ArchivesKept ==
  [][(CallStep /\ last'.op = "rotate")
     => /\ ArchivesKept(archive, archive')
        /\ Cardinality(DOMAIN archive' \ DOMAIN archive) <= 1
        /\ \A n \in DOMAIN archive' \ DOMAIN archive :
             FirstUnused(archive, n) /\ archive'[n] = ledger.text]_vars

\* a rotation has just archived the active ledger as ledger-<ym>-2 next to a
\* file ledger-<ym> that holds another text
C19_Witness ==
  /\ last.op = "rotate" /\ last.changed
  /\ \E n \in DOMAIN archive :
       /\ n[2] = 2
       /\ <<n[1], 1>> \in DOMAIN archive
       /\ archive[<<n[1], 1>>] # archive[n]

(***************************************************************************)
(* C20.  A successful import, directly after an import that returned an    *)
(* error on an unreadable path, of paths that the failed call was given    *)
(* appends no transaction that the failed call had already appended: when  *)
(* no identifier was carried twice in the files before it, none is after   *)
(* it.                                                                     *)
(***************************************************************************)
\* for each ledger file of the directory fs, the identifiers of its
\* transactions, in order
StoredIdsIn(fs) ==
  [f \in (IF fs.ledger.exists THEN {generated_ledger_path} ELSE {})
            \cup {[dir |-> "archive", name |-> n] : n \in DOMAIN fs.archive}
     |-> IdsOf(TransactionsAt(fs, f))]

C20_FailedImportNotRepeated ==
  [][(/\ CallStep
      /\ last.op = "import" /\ ~last.res.ok
      /\ last'.op = "import" /\ last'.res.ok
      /\ Elements(last'.paths) \subseteq Elements(last.paths)
      /\ NoIdTwice(StoredIds))
     => NoIdTwice(StoredIdsIn(Dir'))]_vars

\* the meta comment ensure_txn_id gives a transaction whose meta comment is
\* meta, as the specification words it: meta itself when it carries an
\* identifier, else meta with `, txn:<id>` appended, or `txn:<id>` alone when
\* meta has no text
MetaWithId(meta, id) ==
  IF HasTxnId(meta) THEN meta[1]
  ELSE IF IsSome(meta) /\ ~TrimIsEmpty(meta[1])
       THEN meta[1] \o <<",", " ">> \o TxnColon \o id
       ELSE TxnColon \o id

(***************************************************************************)
(* C21.  The meta comment written for a transaction carries the            *)
(* identifier that is added to the seen-set: extract_txn_id of the written *)
(* meta is that identifier, and the written meta is the transaction's meta *)
(* unchanged when that carried an identifier, else the meta with           *)
(* `, txn:<id>` appended (`txn:<id>` alone when it had no text).           *)
(***************************************************************************)
C21_WrittenIdExtracts ==
  IsSome(prt) =>
    /\ extract_txn_id(prt[1].meta) = Some(prt[1].id)
    /\ prt[1].meta = MetaWithId(prt[1].txn.meta, prt[1].id)

\* the text t begins with the text old
TextBeginsWith(t, old) ==
  /\ Len(t) >= Len(old)
  /\ \A i \in 1..(Len(old) - 1) : t[i] = old[i]
  /\ StartsWith(t[Len(old)], Last(old))

\* the archive directory new has a file for month M that old had not, and
\* that file begins with text
ArchiveBeginsWith(old, new, M, text) ==
  \E name \in DOMAIN new \ DOMAIN old :
    /\ name[1] = M
    /\ TextBeginsWith(new[name], text)

\* the transactions txns are dated in month M, and none of them carries an
\* identifier of the set seen
FreshIn(txns, M, seen) ==
  /\ AllDatedIn(txns, M)
  /\ \A i \in 1..Len(txns) : HasTxnId(txns[i].meta) /\ IdOf(txns[i])[1] \notin seen

(***************************************************************************)
(* C22.  import_source_files rotates before it appends: a call with        *)
(* currentYearMonth M on an active ledger that is not empty and whose      *)
(* first entry is dated in another month leaves an archive file of that    *)
(* month, not there before, that begins with the whole former active       *)
(* content, and an active file that holds only transactions dated in M     *)
(* whose identifiers were not seen before the call: those of the           *)
(* transactions the call imported without archiving them.                  *)
(***************************************************************************)
C22_ImportRotatesFirst ==
  [][(/\ CallStep
      /\ last'.op = "import"
      /\ ledger.exists /\ ~BlankText(ledger.text)
      /\ IsSome(FirstEntryMonth(ledger.text))
      /\ FirstEntryMonth(ledger.text)[1] # last'.now)
     => /\ ArchiveBeginsWith(archive, archive', FirstEntryMonth(ledger.text)[1],
                             ledger.text)
        /\ FreshIn(TransactionsAt(Dir', generated_ledger_path), last'.now,
                   SeenIds(index))
        /\ last'.res.ok =>
             Len(TransactionsAt(Dir', generated_ledger_path))
               = last'.res.stats.imported - last'.res.stats.archived]_vars


\* the third call, an import, has just moved the active ledger of another
\* month to a suffixed archive file (two calls were needed to make the
\* unsuffixed file and the ledger) and appended to the emptied active file
C22_Witness ==
  /\ ncalls = 3
  /\ last.op = "import" /\ last.res.ok
  /\ last.res.stats.imported > last.res.stats.archived
  /\ \E n \in DOMAIN archive : n[2] = 2 /\ n[1] # last.now /\ ~BlankText(archive[n])
  /\ Len(TransactionsAt(Dir, generated_ledger_path)) > 0


\* the files of the directory fs that hold ledger text
LedgerFiles(fs) ==
  (IF fs.ledger.exists THEN {generated_ledger_path} ELSE {})
    \cup {[dir |-> "archive", name |-> n] : n \in DOMAIN fs.archive}

\* the sequence a is the beginning of the sequence b
IsPrefix(a, b) == Len(a) <= Len(b) /\ SubSeq(b, 1, Len(a)) = a

\* the transactions the file at path f holds in the directory after that it
\* did not hold in the directory before
Added(before, after, f) ==
  SubSeq(TransactionsAt(after, f),
         Len(TransactionsAt(before, f)) + 1, Len(TransactionsAt(after, f)))

\* the transactions with postings of the source files at paths, in the order
\* in which an import reads them, fs being the directory when it reads them
RECURSIVE Candidates(_, _, _)
Candidates(fs, paths, i) ==
  IF i > Len(paths) THEN <<>>
  ELSE WithPostings(TransactionsOf(FileAt(fs, SourceFiles, paths[i]).text))
         \o Candidates(fs, paths, i + 1)

\* the file an import with currentYearMonth M appends the transaction to: the
\* active file when its own year-month is M, else the archive file of its
\* year-month
OwnFile(txn, M) ==
  IF yyyymm_from_datetime(txn.datetime) = Some(M) THEN generated_ledger_path
  ELSE [dir |-> "archive", name |-> <<yyyymm_from_datetime(txn.datetime)[1], 1>>]

\* the places <<f, i>> of the transactions added that carry the identifier id
PlacesOf(before, after, id) ==
  {<<f, i>> \in UNION {{f} \X (1..Len(Added(before, after, f))) : f \in LedgerFiles(after)} :
     IdOf(Added(before, after, f)[i]) = Some(id)}

\* the number of transactions added to the archive files
RECURSIVE AddedToArchive(_, _, _)
AddedToArchive(before, after, names) ==
  IF names = {} THEN 0
  ELSE LET n == CHOOSE x \in names : TRUE
       IN Len(Added(before, after, [dir |-> "archive", name |-> n]))
            + AddedToArchive(before, after, names \ {n})

\* An import with currentYearMonth M that found the identifiers seen in the
\* index and the directory before after its rotation, and left the directory
\* after with the identifiers new more in the index, appended each
\* transaction that is not a duplicate to exactly one file, its own.
AppendedToOwnFile(before, after, M, seen, new, cands, archived) ==
  /\ \A f \in LedgerFiles(before) : f \in LedgerFiles(after)
  /\ \A f \in LedgerFiles(after) :
       /\ IsPrefix(TransactionsAt(before, f), TransactionsAt(after, f))
       /\ \A i \in 1..Len(Added(before, after, f)) :
            /\ IsSome(IdOf(Added(before, after, f)[i]))
            /\ IdOf(Added(before, after, f)[i])[1] \in new
            /\ f = OwnFile(Added(before, after, f)[i], M)
  /\ \A id \in new : Cardinality(PlacesOf(before, after, id)) = 1
  /\ \A j \in 1..Len(cands) :
       (HasTxnId(cands[j].meta) /\ IdOf(cands[j])[1] \notin seen)
         => IdOf(cands[j])[1] \in new
  /\ archived = AddedToArchive(before, after, DOMAIN after.archive)

\* the check of C23 on an import that starts from the directory before, the
\* rotation done
ImportAppends(before, after, M, paths, stats) ==
  AppendedToOwnFile(before, after, M, SeenIds(before.index),
                    SeenIds(after.index) \ SeenIds(before.index),
                    Candidates(before, paths, 1), stats.archived)

(***************************************************************************)
(* C23.  A successful import with currentYearMonth M appends each          *)
(* transaction that has postings and is not a duplicate to exactly one     *)
(* file: the active file when its own year-month is M, else the archive    *)
(* file ledger-<its year-month>; the archived count it returns is the      *)
(* number of transactions it appended to archive files.                    *)
(***************************************************************************)
C23_AppendedToOwnFile ==
  [][(CallStep /\ last'.op = "import" /\ last'.res.ok)
     => ImportAppends(rotate_ledger_if_needed(Dir, last'.now), Dir', last'.now,
                      last'.paths, last'.res.stats)]_vars

\* an import has just appended to the active file and to an archive file, and
\* skipped a duplicate
C23_Witness ==
  /\ last.op = "import" /\ last.res.ok
  /\ last.res.stats.archived > 0
  /\ last.res.stats.imported > last.res.stats.archived
  /\ last.res.stats.skipped_duplicates > 0


\* the number of transactions added to the files at the paths of the set files
RECURSIVE AddedIn(_, _, _)
AddedIn(before, after, files) ==
  IF files = {} THEN 0
  ELSE LET f == CHOOSE x \in files : TRUE
       IN Len(Added(before, after, f)) + AddedIn(before, after, files \ {f})

\* the counts stats of an import that read the transactions cands with
\* postings and that started, its rotation done, from the directory before
\* and left the directory after
CountsAddUp(before, after, cands, stats) ==
  /\ stats.imported + stats.skipped_duplicates = Len(cands)
  /\ stats.imported = AddedIn(before, after, LedgerFiles(after))
  /\ stats.archived <= stats.imported

\* the check of C24 on an import that starts from the directory before, the
\* rotation done
ImportCounts(before, after, paths, stats) ==
  CountsAddUp(before, after, Candidates(before, paths, 1), stats)

(***************************************************************************)
(* C24.  For every successful import, imported + skipped_duplicates is the *)
(* number of parsed transactions with at least one posting over all input  *)
(* paths, imported is the number of transactions the call appended to the  *)
(* active and archive files together, and archived is at most imported.    *)
(***************************************************************************)
C24_CountsAddUp ==
  [][(CallStep /\ last'.op = "import" /\ last'.res.ok)
     => ImportCounts(rotate_ledger_if_needed(Dir, last'.now), Dir', last'.paths,
                     last'.res.stats)]_vars

\* an import of two files, one of which holds a transaction without
\* postings, has just imported, archived and skipped transactions
C24_Witness ==
  /\ last.op = "import" /\ last.res.ok
  /\ last.paths = <<PathB, PathA>>
  /\ last.res.stats.skipped_duplicates = 1
  /\ last.res.stats.archived = 1
  /\ last.res.stats.imported = 2


\* the transactions without postings of the source files at paths, fs being
\* the directory when an import reads them
RECURSIVE WithoutPostings(_, _, _)
WithoutPostings(fs, paths, i) ==
  IF i > Len(paths) THEN <<>>
  ELSE SelectSeq(TransactionsOf(FileAt(fs, SourceFiles, paths[i]).text),
                 LAMBDA t : Len(t.postings) = 0)
         \o WithoutPostings(fs, paths, i + 1)

\* the identifiers that the transactions txns carry
CarriedIds(txns) == {IdOf(txns[i])[1] : i \in {k \in 1..Len(txns) : IsSome(IdOf(txns[k]))}}

\* An import that read the transactions empties without postings next to the
\* transactions cands with postings left them out: no transaction without
\* postings was added to a file, the counts cover the transactions with
\* postings only, and an identifier that only transactions without postings
\* carry is not among the identifiers new in the index.
LeftOut(before, after, empties, cands, new, stats) ==
  /\ \A f \in LedgerFiles(after) :
       \A i \in 1..Len(Added(before, after, f)) :
         Len(Added(before, after, f)[i].postings) > 0
  /\ AddedIn(before, after, LedgerFiles(after)) <= Len(cands)
  /\ stats.imported + stats.skipped_duplicates = Len(cands)
  /\ stats.archived <= Len(cands)
  /\ (CarriedIds(empties) \ CarriedIds(cands)) \cap new = {}

\* the check of C25 on an import that starts from the directory before, the
\* rotation done
EmptiesLeftOut(before, after, paths, stats) ==
  LeftOut(before, after, WithoutPostings(before, paths, 1),
          Candidates(before, paths, 1),
          SeenIds(after.index) \ SeenIds(before.index), stats)

\* every path of the sequence names a file
AllReadable(fs, paths) ==
  \A i \in 1..Len(paths) : FileAt(fs, SourceFiles, paths[i]).exists

(***************************************************************************)
(* C25.  An import whose source files can all be read succeeds also when   *)
(* they hold transactions without postings, and it leaves these out: none  *)
(* is written to a file or counted as imported, skipped or archived, and   *)
(* the identifier of none is added to the seen-set.                        *)
(***************************************************************************)
C25_EmptySkipped ==
  [][(/\ CallStep /\ last'.op = "import"
      /\ AllReadable(rotate_ledger_if_needed(Dir, last'.now), last'.paths)
      /\ Len(WithoutPostings(rotate_ledger_if_needed(Dir, last'.now),
                             last'.paths, 1)) > 0)
     => /\ last'.res.ok
        /\ EmptiesLeftOut(rotate_ledger_if_needed(Dir, last'.now), Dir',
                          last'.paths, last'.res.stats)]_vars

\* an import of the file that holds the transaction b without postings has
\* just added an identifier to the seen-set, and not b
C25_Witness ==
  /\ last.op = "import" /\ last.res.ok
  /\ last.paths = <<PathB>>
  /\ last.res.stats.imported = 1
  /\ <<"a">> \in SeenIds(index)
  /\ <<"b">> \notin SeenIds(index)


\* How the text of a line reads, whatever was read before it: as an
\* `account` line, as an indented line, as a transaction header.
AccountLooking(line) ==
  /\ ~is_blank(line) /\ ~is_directive(line)
  /\ \/ line = Account7
     \/ StartsWith(line, Account7 \o <<" ">>)
     \/ StartsWith(line, Account7 \o <<"\t">>)

IndentedLooking(line) ==
  /\ ~is_blank(line) /\ ~is_directive(line) /\ ~AccountLooking(line)
  /\ StartsWith(line, FourSpaces)

HeaderLineLooking(line) ==
  /\ ~is_blank(line) /\ ~is_directive(line) /\ ~AccountLooking(line)
  /\ ~IndentedLooking(line)
  /\ IsSome(header_datetime_re(line))

\* the line ends the transaction or declaration open before it
Closing(line) == is_blank(line) \/ AccountLooking(line) \/ HeaderLineLooking(line)

\* the positions of the transaction headers among the lines ls, ascending
HeaderPositions(ls) ==
  SelectSeq([i \in 1..Len(ls) |-> i], LAMBDA i : HeaderLineLooking(ls[i]))

\* the position of the first closing line after position h (past the last
\* line when there is none)
RECURSIVE NextClosing(_, _)
NextClosing(ls, h) ==
  IF h + 1 > Len(ls) \/ Closing(ls[h + 1]) THEN h + 1 ELSE NextClosing(ls, h + 1)

\* the line is an indented line with an account, an amount and a commodity
\* token: the parser makes a posting of it when a transaction is open
PostingShaped(line) ==
  IndentedLooking(line) /\ Len(split_whitespace(From(line, 5))) >= 3

\* the positions of the posting lines of the transaction whose header is at
\* position h: those after h and before the next closing line
PostingPositions(ls, h) ==
  SelectSeq([i \in 1..Len(ls) |-> i],
            LAMBDA i : h < i /\ i < NextClosing(ls, h) /\ PostingShaped(ls[i]))

MissingPostings == "transaction missing postings"

\* For the lines ls with headers at the positions hs, the result lists one
\* transaction for each header, without postings exactly when the header has
\* no posting line, and holds one "transaction missing postings" diagnostic
\* at the line of each header without posting line and no other.
MissingPostingsOnce(ls, hs, result) ==
  /\ Len(result.transactions) = Len(hs)
  /\ \A j \in 1..Len(hs) :
       /\ (Len(result.transactions[j].postings) = 0)
            <=> (Len(PostingPositions(ls, hs[j])) = 0)
       /\ CountOf(DiagnosticsAt(result, hs[j]), MissingPostings)
            = IF Len(PostingPositions(ls, hs[j])) = 0 THEN 1 ELSE 0
  /\ CountOf(result.diagnostics, MissingPostings)
       = Cardinality({j \in 1..Len(hs) : Len(PostingPositions(ls, hs[j])) = 0})

(***************************************************************************)
(* C26.  The parser records "transaction missing postings" exactly once,   *)
(* at the header's line, for each transaction that is closed without a     *)
(* posting (by a blank line, the next header, an account declaration line  *)
(* or the end of the input) and never for a transaction with a posting;    *)
(* the transaction without postings is in the result's transaction list.   *)
(***************************************************************************)
C26_MissingPostingsOnce ==
  IsSome(pres) => MissingPostingsOnce(lines(ptext), HeaderPositions(lines(ptext)), pres[1])

\* what follows the header at position h: a blank line, a header, an account
\* line, the end of the input
EndedBy(ls, h) ==
  IF NextClosing(ls, h) > Len(ls) THEN "end"
  ELSE IF is_blank(ls[NextClosing(ls, h)]) THEN "blank"
  ELSE IF AccountLooking(ls[NextClosing(ls, h)]) THEN "account"
  ELSE "header"

\* a text has been parsed in which a transaction without postings is closed
\* by the next header, after a posting line that was not accepted, and a
\* transaction with a posting is closed by the end of the input
C26_Witness ==
  /\ IsSome(pres)
  /\ \E h \in 1..Len(lines(ptext)) :
       /\ HeaderLineLooking(lines(ptext)[h])
       /\ Len(PostingPositions(lines(ptext), h)) = 0
       /\ NextClosing(lines(ptext), h) > h + 1
       /\ EndedBy(lines(ptext), h) = "header"
  /\ \E h \in 1..Len(lines(ptext)) :
       /\ HeaderLineLooking(lines(ptext)[h])
       /\ Len(PostingPositions(lines(ptext), h)) > 0
       /\ EndedBy(lines(ptext), h) = "end"


\* the posting is the one the parser makes of the posting line: its first
\* three tokens are the account, the amount text and the commodity
PostingOf(posting, line) ==
  /\ posting.account = split_whitespace(From(line, 5))[1]
  /\ posting.amount_text = split_whitespace(From(line, 5))[2]
  /\ posting.commodity = split_whitespace(From(line, 5))[3]

\* the transaction is the one of the header at position h of the lines ls: it
\* has the header's date and, in order, the postings of the header's posting
\* lines at the positions ps and no other
TransactionOf(txn, ls, h, ps) ==
  /\ txn.date = SubSeq(ls[h], 1, 10)
  /\ Len(txn.postings) = Len(ps)
  /\ \A k \in 1..Len(ps) : PostingOf(txn.postings[k], ls[ps[k]])

\* the transactions are those of the headers at the positions hs, in order
OnePerHeader(transactions, ls, hs) ==
  /\ Len(transactions) = Len(hs)
  /\ \A j \in 1..Len(hs) :
       TransactionOf(transactions[j], ls, hs[j], PostingPositions(ls, hs[j]))

(***************************************************************************)
(* C27.  The transaction list holds one transaction for each transaction   *)
(* header line, in the order of the header lines, and the postings of each *)
(* are those of the posting lines that follow its header with no blank     *)
(* line, account declaration line or other header in between: a header or  *)
(* an account declaration closes the entity that was open.                 *)
(***************************************************************************)
C27_OnePerHeader ==
  IsSome(pres) =>
    OnePerHeader(pres[1].transactions, lines(ptext), HeaderPositions(lines(ptext)))

\* a text has been parsed in which two headers of different dates each have
\* a posting line, the second header closing the first transaction
C27_Witness ==
  /\ IsSome(pres)
  /\ \E g, h \in 1..Len(lines(ptext)) :
       /\ g < h
       /\ HeaderLineLooking(lines(ptext)[g]) /\ HeaderLineLooking(lines(ptext)[h])
       /\ EndedBy(lines(ptext), g) = "header"
       /\ SubSeq(lines(ptext)[g], 1, 10) # SubSeq(lines(ptext)[h], 1, 10)
       /\ Len(PostingPositions(lines(ptext), g)) > 0
       /\ Len(PostingPositions(lines(ptext), h)) > 0


\* the text followed by a blank line
WithBlankLine(text) ==
  IF Last(text) = <<>> THEN Append(text, <<>>) ELSE text \o << <<>>, <<>> >>

\* the two results have the same transactions, balances and diagnostics
SameOutcome(r, q) ==
  /\ r.transactions = q.transactions
  /\ r.balances = q.balances
  /\ r.diagnostics = q.diagnostics

(***************************************************************************)
(* C28.  The end of the input closes the open transaction or declaration   *)
(* as a blank line does: a text and the same text followed by a blank line *)
(* parse to the same transactions, balances and diagnostics.               *)
(***************************************************************************)
C28_EndAsBlank ==
  IsSome(pres) => SameOutcome(pres[1], parse_transactions(WithBlankLine(ptext)))

\* a text has been parsed that ends inside a transaction with a posting,
\* after a transaction without postings
C28_Witness ==
  /\ IsSome(pres)
  /\ Len(pres[1].balances) > 0
  /\ CountOf(pres[1].diagnostics, MissingPostings) > 0
  /\ \E h \in 1..Len(lines(ptext)) :
       /\ HeaderLineLooking(lines(ptext)[h])
       /\ EndedBy(lines(ptext), h) = "end"
       /\ Len(PostingPositions(lines(ptext), h)) > 0


\* the text of the lines ls without the i-th
WithoutLine(ls, i) == TextOf(SubSeq(ls, 1, i - 1) \o SubSeq(ls, i + 1, Len(ls)))

\* the diagnostics ds, those of the lines from the i-th on moved one line down
MovedDown(ds, i) ==
  [k \in 1..Len(ds) |->
     IF ds[k].line >= i THEN [ds[k] EXCEPT !.line = @ + 1] ELSE ds[k]]

\* the result r of a text is the result q of the text without its i-th line,
\* but for the line numbers of the diagnostics of the lines after it
SameButLineNumbers(r, q, i) ==
  /\ r.ok = q.ok
  /\ r.transactions = q.transactions
  /\ r.balances = q.balances
  /\ r.diagnostics = MovedDown(q.diagnostics, i)

\* the first character of the line that is neither a space nor a tab is `;`
DirectiveLooking(line) ==
  \E k \in 1..Len(line) :
    /\ line[k] = ";"
    /\ \A m \in 1..(k - 1) : line[m] \in {" ", "\t"}

(***************************************************************************)
(* C29.  A directive line (its first character other than space and tab is *)
(* `;`) leaves the parser's state as it was, whatever is open: it closes   *)
(* nothing and records no diagnostic, and the result of a text that holds  *)
(* such a line differs from the result of the text without it only by the  *)
(* line numbers of the diagnostics of the lines after it.                  *)
(***************************************************************************)
C29_DirectiveIgnored ==
  IsSome(pres) =>
    \A i \in 1..Len(lines(ptext)) :
      DirectiveLooking(lines(ptext)[i])
        => /\ StateBefore(ptext, i + 1) = StateBefore(ptext, i)
           /\ SameButLineNumbers(pres[1],
                                 parse_transactions(WithoutLine(lines(ptext), i)), i)

\* a text has been parsed in which a directive line stands between a header
\* and its posting line, and a diagnostic is recorded for a line after it
C29_Witness ==
  /\ IsSome(pres)
  /\ \E h \in 1..Len(lines(ptext)) :
       /\ HeaderLineLooking(lines(ptext)[h])
       /\ h < Len(lines(ptext))
       /\ DirectiveLooking(lines(ptext)[h + 1])
       /\ Len(PostingPositions(lines(ptext), h)) > 0
       /\ \E k \in 1..Len(pres[1].diagnostics) : pres[1].diagnostics[k].line > h + 1


\* the indented line has the shape of a posting: a well-formed account, amount
\* and commodity
WellFormedPosting(line) ==
  /\ PostingShaped(line)
  /\ account_re(split_whitespace(From(line, 5))[1])
  /\ amount_re(split_whitespace(From(line, 5))[2])
  /\ commodity_re(split_whitespace(From(line, 5))[3])

NotAllowed == "posting is not allowed inside an account declaration"

\* the line was rejected as a posting inside an account declaration: ds, the
\* diagnostics of the line, hold that diagnostic, and the parser's
\* transactions are after the line as they were before
RejectedInDeclaration(before, after, ds) ==
  /\ CountOf(ds, NotAllowed) = 1
  /\ after.current = before.current
  /\ after.transactions = before.transactions

(***************************************************************************)
(* C30.  An indented line that has the shape of a posting, read while an   *)
(* account declaration is open, is rejected with the diagnostic "posting   *)
(* is not allowed inside an account declaration" and adds no posting to    *)
(* any transaction.                                                        *)
(***************************************************************************)
C30_PostingInDeclaration ==
  IsSome(pres) =>
    \A i \in 1..Len(lines(ptext)) :
      (WellFormedPosting(lines(ptext)[i]) /\ DeclarationOpen(StateBefore(ptext, i)))
        => RejectedInDeclaration(StateBefore(ptext, i), StateBefore(ptext, i + 1),
                                 DiagnosticsAt(pres[1], i))


\* the line is an opening entry: indented, its first token `opening`
OpeningLine(line) ==
  /\ StartsWith(line, FourSpaces)
  /\ ~is_directive(line)
  /\ Len(EntryTokens(line)) >= 1
  /\ EntryTokens(line)[1] = Opening7

\* the i-th line of the text is an opening line read while a declaration
\* that already has an opening is open
SecondOpening(text, i) ==
  /\ OpeningLine(lines(text)[i])
  /\ DeclarationOpen(StateBefore(text, i))
  /\ IsSome(OpenDecl(StateBefore(text, i)).opening)

\* the opening line has an amount, and a commodity of its own or the default
\* commodity of the declaration d
OpeningComplete(line, d) ==
  \/ Len(EntryTokens(line)) >= 3
  \/ Len(EntryTokens(line)) = 2 /\ IsSome(d.default_commodity)

\* the declaration open before the line is as it was after it, and the
\* result's total for its account in the commodity of its opening is the
\* amount of that opening when no other entry is for them
FirstOpeningStays(before, after, result, entries) ==
  /\ after.current_account = before.current_account
  /\ EntriesFor(entries, OpenDecl(before).account,
                OpenDecl(before).opening[1].commodity) = 1
       => TotalsOf(result.balances, OpenDecl(before).account,
                   OpenDecl(before).opening[1].commodity)
            = {OpenDecl(before).opening[1].amount}

DuplicateOpening == "duplicate opening declaration"

\* every opening line read while the open declaration has an opening leaves
\* the first opening in place; it records the duplicate diagnostic once when
\* `always`, or when the line is complete
SecondOpeningsRejected(text, result, entries, always) ==
  \A i \in 1..Len(lines(text)) :
    SecondOpening(text, i) =>
      /\ FirstOpeningStays(StateBefore(text, i), StateBefore(text, i + 1),
                           result, entries)
      /\ (always \/ OpeningComplete(lines(text)[i], OpenDecl(StateBefore(text, i))))
           => CountOf(DiagnosticsAt(result, i), DuplicateOpening) = 1

LoadedPresent(before, after, call, normalized) ==
  /\ call.wrote <=> normalized # before.ledger.text
  /\ ~call.wrote => after = before
  /\ after = [before EXCEPT !.ledger = TextFile(normalized)]
  /\ call.res = parse_transactions(normalized)

\* a call on a directory without active file: empty ok result, nothing
\* written or created
LoadedAbsent(before, after, call) ==
  /\ ~call.wrote
  /\ after = before
  /\ call.res.ok
  /\ call.res.diagnostics = <<>>
  /\ call.res.transactions = <<>>
  /\ call.res.balances = <<>>

\* a call that follows the call prev: when prev was a load too, the call
\* wrote nothing and returned what prev returned
LoadedAgain(before, after, prev, call) ==
  prev.op = "load" =>
    /\ ~call.wrote
    /\ after = before
    /\ call.res = prev.res

LoadEffect(before, after, prev, call) ==
  /\ IF before.ledger.exists
     THEN LoadedPresent(before, after, call,
                        normalize_blank_lines(before.ledger.text))
     ELSE LoadedAbsent(before, after, call)
  /\ LoadedAgain(before, after, prev, call)

(***************************************************************************)
(* C32.  A call of load_active_ledger writes the active file exactly when  *)
(* its text differs from its normalized text, leaves the normalized text   *)
(* in it and returns the parse of the normalized text; when the active     *)
(* file is absent it returns an empty ok result and the directory is as it *)
(* was; a load directly after a load writes nothing and returns the same   *)
(* result.                                                                 *)
(***************************************************************************)
C32_Load ==
  [][(CallStep /\ last'.op = "load") => LoadEffect(Dir, Dir', last, last')]_vars

\* a load has followed a load that rewrote the active file, and returned
\* transactions
C32_Witness ==
  /\ ncalls >= 2
  /\ last.op = "load"
  /\ ledger.exists
  /\ ledger.text # ptext
  /\ Len(last.res.transactions) > 0


(***************************************************************************)
(* Declaration study: add_account_declaration is called, up to MaxDecls    *)
(* times, on a directory whose active file is absent or holds any text of  *)
(* at most MaxDeclLines lines over DeclLineSet (the file is the user's to  *)
(* edit); the set has a line that begins with a date and is no header.     *)
(***************************************************************************)
MaxDeclLines == 4

\* 2026-01-03
LDateOnly ==
  <<"2","0","2","6","-","0","1","-","0","3">>

DeclLineSet == {LBlank, LHeader, LPostXY, LAccountU, LOpening, LDateOnly}

DeclTexts == {TextOf(ls) : ls \in UNION {[1..n -> DeclLineSet] : n \in 1..MaxDeclLines}}

DeclInit ==
  /\ ptext \in DeclTexts
  /\ ledger \in {NoFile, TextFile(ptext)}
  /\ archive = <<>>
  /\ index = NoFile
  /\ sources = NoFile
  /\ last = NoCall
  /\ ndecl = 0
  /\ nfail = 0
  /\ ncalls = 0
  /\ nin = EmptyText
  /\ nout = <<>>
  /\ pres = None
  /\ prt = None

DeclNext == \E d \in DeclInputs : AddAccount(d)

SpecDecl == DeclInit /\ [][DeclNext]_vars

\* the lines of the file that are not empty, in order (none when the file
\* is absent)
NonEmptyLines(file) ==
  IF file.exists THEN SelectSeq(file.text, LAMBDA l : Len(l) > 0) ELSE <<>>

\* the lines that declare the input d
DeclLines(d) ==
  <<Account7 \o <<" ">> \o d.account_name
      \o (IF IsSome(d.currency) THEN <<" ">> \o d.currency[1] ELSE <<>>)>>
    \o (IF IsSome(d.opening_balance)
        THEN <<FourSpaces \o Opening7 \o <<" ">> \o d.opening_balance[1] \o <<" ">>
                 \o (IF IsSome(d.currency) THEN d.currency[1] ELSE Usd)>>
        ELSE <<>>)

\* the declaration that the input d declares
DeclOf(d) ==
  [account |-> d.account_name,
   default_commodity |-> d.currency,
   opening |-> IF IsSome(d.opening_balance)
               THEN Some([commodity |-> IF IsSome(d.currency) THEN d.currency[1] ELSE Usd,
                          amount |-> parse_f64(d.opening_balance[1])])
               ELSE None]

\* the text `old` (empty when the active file was absent) read as a ledger
\* has the transactions txns and the declarations decls of the active file
\* `new`, which has one more declaration at its end, that of d
EntriesKept(old, new, d) ==
  /\ parse_transactions(new).transactions = parse_transactions(old).transactions
  /\ DeclarationsOf(new) = Append(DeclarationsOf(old), DeclOf(d))

\* only the active file differs, and its non-empty lines are those it had
\* followed by the lines of the declaration
AppendedToActiveOnly(before, after, d) ==
  /\ after.archive = before.archive
  /\ after.index = before.index
  /\ after.sources = before.sources
  /\ after.ledger.exists
  /\ NonEmptyLines(after.ledger) = NonEmptyLines(before.ledger) \o DeclLines(d)

\* the call before was made with the same input: the active file ends in
\* two declarations of it
DeclaredTwice(prev, new, d) ==
  (prev.op = "account" /\ prev.input = d) =>
    /\ Len(DeclarationsOf(new)) >= 2
    /\ SubSeq(DeclarationsOf(new), Len(DeclarationsOf(new)) - 1,
              Len(DeclarationsOf(new))) = <<DeclOf(d), DeclOf(d)>>

\* what the active file held before the call, as the call reads it
ReadForAppend(file) ==
  IF file.exists THEN normalize_blank_lines(file.text) ELSE EmptyText

\* what the active file held before the call
HeldBefore(file) == IF file.exists THEN file.text ELSE EmptyText

(***************************************************************************)
(* C33.  A call of add_account_declaration changes the active file only    *)
(* (index.json, sources.json and the archive files are as they were); the  *)
(* non-empty lines of the active file are those it had followed by the     *)
(* lines of the declaration; the transactions and declarations of the      *)
(* file are those of its former text after blank-line normalization,       *)
(* followed by the new declaration; and after two calls in a row with the  *)
(* same arguments the file ends in two such declarations.                  *)
(***************************************************************************)
C33_DeclarationAppended ==
  [][(CallStep /\ last'.op = "account") =>
       /\ AppendedToActiveOnly(Dir, Dir', last'.input)
       /\ EntriesKept(ReadForAppend(ledger), ledger'.text, last'.input)
       /\ DeclaredTwice(last, ledger'.text, last'.input)]_vars

\* the statement with the entries of the former text as it was: the
\* transactions and declarations the file had before the call are kept
C33_EntriesOfFormerText ==
  [][(CallStep /\ last'.op = "account") =>
       EntriesKept(HeldBefore(ledger), ledger'.text, last'.input)]_vars

\* add_account_declaration has been called twice on an active file that
\* had a transaction; the file ends in two equal declarations with opening
C33_Witness ==
  /\ ndecl = 2
  /\ last.op = "account"
  /\ ledger.exists
  /\ Len(parse_transactions(ledger.text).transactions) > 0
  /\ Len(DeclarationsOf(ledger.text)) >= 2
  /\ SubSeq(DeclarationsOf(ledger.text), Len(DeclarationsOf(ledger.text)) - 1,
            Len(DeclarationsOf(ledger.text))) = <<DeclOf(last.input), DeclOf(last.input)>>
  /\ IsSome(last.input.opening_balance)


(***************************************************************************)
(* Side-file study: the store as in Spec, calls of import_source_files and *)
(* add_manual_transaction only, and index.json or sources.json may at any  *)
(* time be left holding text that does not decode (serde_json::from_str    *)
(* fails on it).                                                           *)
(***************************************************************************)
\* a file that exists and does not decode
Undecodable == [exists |-> TRUE, valid |-> FALSE]

DamageIndex ==
  /\ index.exists /\ index.valid
  /\ index' = Undecodable
  /\ UNCHANGED <<ledger, archive, sources, last, ndecl, nfail, ncalls,
                 normVars, parseVars>>

DamageSources ==
  /\ sources.exists /\ sources.valid
  /\ sources' = Undecodable
  /\ UNCHANGED <<ledger, archive, index, last, ndecl, nfail, ncalls,
                 normVars, parseVars>>

SideNext ==
  \/ \E now \in NowValues, paths \in PathLists :
       \E clock \in [1..ClockReadings(paths, 1) -> 1..MaxClock] :
         Import(now, paths, clock)
  \/ \E now \in NowValues, input \in ManualInputs, nanos \in 1..MaxClock :
       AddManual(now, input, nanos)
  \/ DamageIndex
  \/ DamageSources

SpecSide == Init /\ [][SideNext]_vars


\* the directory with each side file that does not decode holding the
\* empty default instead
WithDefaultIndex(fs) ==
  IF fs.index = Undecodable
  THEN [fs EXCEPT !.index = JsonFile([txn_ids |-> {}])] ELSE fs

WithDefaultSources(fs) ==
  IF fs.sources = Undecodable
  THEN [fs EXCEPT !.sources = JsonFile([paths |-> <<>>])] ELSE fs

\* the call on the directory before left the directory `after` and returned
\* res, as the call r on the directory with the defaults does: the same
\* result and the same ledger files; a call that succeeds leaves the same
\* side files too, one that fails leaves the side files as they were
SameAs(r, before, after, res) ==
  /\ Returned(r) = res
  /\ r.fs.ledger = after.ledger
  /\ r.fs.archive = after.archive
  /\ IF res.ok
     THEN r.fs.index = after.index /\ r.fs.sources = after.sources
     ELSE after.index = before.index /\ after.sources = before.sources

\* a call of import_source_files on a directory with a side file that does
\* not decode: it fails only when a path cannot be read, it does what the
\* call on the directory with the defaults does, and on success both side
\* files decode, a sources.json that did not decode holding the paths of the
\* call only and an index.json that did not decode as many identifiers as
\* the call imported
ImportDefaulted(before, after, call) ==
  /\ AllReadable(before, call.paths) => call.res.ok
  /\ \E clock \in [1..ClockReadings(call.paths, 1) -> 1..MaxClock] :
       SameAs(import_source_files(WithDefaultSources(WithDefaultIndex(before)),
                                  call.now, call.paths, SourceFiles, clock),
              before, after, call.res)
  /\ call.res.ok =>
       /\ after.index.exists /\ after.index.valid
       /\ after.sources.exists /\ after.sources.valid
       /\ before.sources = Undecodable =>
            /\ SortedNoDup(after.sources.value.paths)
            /\ Elements(after.sources.value.paths) = Elements(call.paths)
       /\ before.index = Undecodable =>
            Cardinality(after.index.value.txn_ids) = call.res.stats.imported

\* a call of add_manual_transaction on a directory whose index.json does not
\* decode: it succeeds, does what the call on the directory with the default
\* does, and index.json holds the new identifier only; sources.json, which
\* the call does not read, is as it was
ManualDefaulted(before, after, call) ==
  /\ after.sources = before.sources
  /\ before.index = Undecodable =>
       /\ call.res.ok
       /\ SameAs(add_manual_transaction(WithDefaultIndex(before), call.now,
                                        call.input, call.nanos),
                 before, after, call.res)
       /\ after.index = JsonFile([txn_ids |-> {call.res.id}])

EndsInTwoBlankLines(t) ==
  Len(t) >= 2 /\ BlankLine(t[Len(t)]) /\ BlankLine(t[Len(t) - 1])

(***************************************************************************)
(* C35.  The output of normalize_blank_lines does not end in two or more   *)
(* blank lines, a blank line being an empty or whitespace-only line.       *)
(***************************************************************************)
C35_NoTwoTrailingBlanks ==
  \A k \in 1..Len(nout) : ~EndsInTwoBlankLines(nout[k])

=============================================================================
